---- MODULE Spec2Model ----
(***************************************************************************)
(* A model of the fieldgame renderer: the vector algebra, the angular      *)
(* camera projection, the adaptive curve approximator, the face visibility *)
(* test, the stencil polygon filler and the mesh render orchestrator.      *)
(*                                                                         *)
(* Numbers.  The program computes in f64.  The model computes in integers: *)
(* world coordinates are integers (multiples of Grid for mesh vertices, so *)
(* that every midpoint taken down to depth MAX_SPLIT is an exact integer,  *)
(* as it is an exact f64), angles are in milliradians, screen coordinates  *)
(* are whole pixels.  sqrt and acos are computed to that precision.  The   *)
(* f64 value NaN is a distinguished screen coordinate with the comparison  *)
(* semantics of IEEE-754 (every ordered comparison with NaN is false).     *)
(***************************************************************************)
EXTENDS Integers, Sequences, FiniteSets, TLC

VARIABLES
    pc,         \* position of the running operation
    \* approximate_curve (render.rs): its arguments, locals and result
    a, b, camera, resolution, max_split,
    done, todo, level, branch_done,
    iters,      \* number of iterations of the while loop executed so far
    mids,       \* number of midpoints computed so far
    curve,      \* the returned Vec<[f64; 2]>
    \* render_mesh (mesh.rs): its arguments and locals
    mesh, pose, mesh_camera,
    transformed_vertices, curves,
    curve_calls,    \* the approximate_curve invocations made so far
    draws,          \* the render_curve and draw_poly invocations made so far
    \* intersects_triangle / intersects_parallelogram (mesh.rs)
    origin, direction, face,
    behind,         \* the returned bool
    \* draw_poly (render.rs): its arguments, the fan loop and the graphics sink
    color, poly, is_behind,
    prev,           \* index into poly of the loop variable prev
    g,              \* the graphics sink: draw state, stencil state, draw log
    \* App::update (main.rs): a game object, the camera and speed of the App
    game_object, app,
    ticks,          \* the update ticks run so far
    \* the quaternion operations (r3/quaternion.rs): operands and results
    quat_a, quat_b, quat_c, vector, out

curveVars == <<a, b, camera, resolution, max_split, done, todo, level,
               branch_done, iters, mids, curve>>

meshVars == <<mesh, pose, mesh_camera, transformed_vertices, curves,
              curve_calls, draws>>

visVars == <<origin, direction, face, behind>>

polyVars == <<color, poly, is_behind, prev, g>>

tickVars == <<game_object, app, ticks>>

quatVars == <<quat_a, quat_b, quat_c, vector, out>>

vars == <<pc, curveVars, meshVars, visVars, polyVars, tickVars, quatVars>>

----------------------------------------------------------------------------
(* Bounds and program constants *)

\* largest max_split argument the curve runs are started with
MaxSplitBound == 3

\* const MAX_SPLIT of render_mesh
MAX_SPLIT == 9

\* mesh coordinates are multiples of Grid: midpoints stay exact to MAX_SPLIT
Grid == 2 ^ MAX_SPLIT

\* std::f64::consts::PI in milliradians
PI == 3142

\* milliradians per radian
Milli == 10 ^ 3

----------------------------------------------------------------------------
(* Integer helpers standing for f64 arithmetic *)

\* n / d rounded toward zero, d > 0
tdiv(n, d) == IF n >= 0 THEN n \div d ELSE -((-n) \div d)

RECURSIVE sqrt_search(_, _, _)
sqrt_search(n, lo, hi) ==
    IF lo >= hi THEN lo
    ELSE LET m == (lo + hi + 1) \div 2
         IN  IF m * m <= n THEN sqrt_search(n, m, hi)
                           ELSE sqrt_search(n, lo, m - 1)

\* f64::sqrt, rounded down to an integer
sqrt(n) == sqrt_search(n, 0, IF n < 32768 THEN n ELSE 32768)

\* atan(num / den) in milliradians for 0 <= num <= den, den > 0
atan_frac(num, den) ==
    LET z == (num * Milli) \div den
    IN  (z * (1058 - (273 * z) \div Milli)) \div Milli

\* the angle of the direction (c, s), s >= 0, in milliradians: 0 .. PI
atan2(s, c) ==
    IF s = 0 THEN (IF c >= 0 THEN 0 ELSE PI)
    ELSE IF c >= s THEN atan_frac(s, c)
    ELSE IF c >= 0 THEN PI \div 2 - atan_frac(c, s)
    ELSE IF -c < s THEN PI \div 2 + atan_frac(-c, s)
    ELSE PI - atan_frac(s, -c)

\* f64::acos of the ratio c / n, |c| <= n, n > 0, in milliradians
acos(c, n) == atan2(sqrt(n * n - c * c), c)

----------------------------------------------------------------------------
(* r3.rs: the vector type R3 and its operations *)

R3(x, y, z) == [x |-> x, y |-> y, z |-> z]

neg(v) == R3(-v.x, -v.y, -v.z)

add(v, w) == R3(v.x + w.x, v.y + w.y, v.z + w.z)

sub(v, w) == R3(v.x - w.x, v.y - w.y, v.z - w.z)

mul(v, k) == R3(v.x * k, v.y * k, v.z * k)

dot(v, w) == v.x * w.x + v.y * w.y + v.z * w.z

cross(v, w) == R3(v.y * w.z - v.z * w.y,
                  v.z * w.x - v.x * w.z,
                  v.x * w.y - v.y * w.x)

norm(v) == sqrt(dot(v, v))

\* the first point in place of the midpoint
midpoint_at_begin(v, w) == v

midpoint(v, w) == R3((v.x + w.x) \div 2, (v.y + w.y) \div 2, (v.z + w.z) \div 2)

----------------------------------------------------------------------------
(* render.rs: Camera and to_screen_space *)

Camera(position, forward, right, scale) ==
    [position |-> position, forward |-> forward, right |-> right, scale |-> scale]

\* a screen point [f64; 2]; nan marks the point [NaN, NaN]
Screen(x, y) == [nan |-> FALSE, x |-> x, y |-> y]

NaNScreen == [nan |-> TRUE, x |-> 0, y |-> 0]

\* the antipode put on the y axis
to_screen_space_antipode_on_y(point, cam) ==
    LET to_point == sub(point, cam.position)
        n        == norm(to_point)
        fwd      == dot(to_point, cam.forward)
        alpha    == acos(fwd, n)
    IN  IF n = 0 THEN NaNScreen
        ELSE IF alpha = 0 THEN Screen(0, 0)
        ELSE IF alpha = PI THEN Screen(0, (cam.scale * alpha) \div Milli)
        ELSE LET r == norm(sub(to_point, mul(cam.forward, fwd)))
                 x == tdiv(alpha * dot(to_point, cam.right), r)
                 y == tdiv(alpha * dot(to_point, cross(cam.forward, cam.right)), r)
             IN  Screen(tdiv(cam.scale * x, Milli), tdiv(cam.scale * y, Milli))

\* beta taken over the whole length of to_point
to_screen_space_beta_over_length(point, cam) ==
    LET to_point == sub(point, cam.position)
        n        == norm(to_point)
        fwd      == dot(to_point, cam.forward)
        alpha    == acos(fwd, n)
    IN  IF n = 0 THEN NaNScreen
        ELSE IF alpha = 0 THEN Screen(0, 0)
        ELSE IF alpha = PI THEN Screen((cam.scale * alpha) \div Milli, 0)
        ELSE LET x == tdiv(alpha * dot(to_point, cam.right), n)
                 y == tdiv(alpha * dot(to_point, cross(cam.forward, cam.right)), n)
             IN  Screen(tdiv(cam.scale * x, Milli), tdiv(cam.scale * y, Milli))

to_screen_space(point, cam) ==
    LET to_point == sub(point, cam.position)
        n        == norm(to_point)
        fwd      == dot(to_point, cam.forward)
        alpha    == acos(fwd, n)
    IN  IF n = 0 THEN NaNScreen        \* normalized() divides 0.0 by 0.0
        ELSE IF alpha = 0 THEN Screen(0, 0)
        ELSE IF alpha = PI THEN Screen((cam.scale * alpha) \div Milli, 0)
        ELSE LET r == norm(sub(to_point, mul(cam.forward, fwd)))
                 x == tdiv(alpha * dot(to_point, cam.right), r)
                 y == tdiv(alpha * dot(to_point, cross(cam.forward, cam.right)), r)
             IN  Screen(tdiv(cam.scale * x, Milli), tdiv(cam.scale * y, Milli))

----------------------------------------------------------------------------
(* render.rs: approximate_curve *)

\* an entry of done and todo: a 3D point with its projection
Entry(point, cam) == [p |-> point, s |-> to_screen_space(point, cam)]

\* distance <= resolution, for the screen points of two entries
within_resolution(begin, end, res) ==
    IF begin.s.nan \/ end.s.nan THEN FALSE
    ELSE LET dx == begin.s.x - end.s.x
             dy == begin.s.y - end.s.y
         IN  /\ res >= 0
             /\ dx * dx + dy * dy <= res * res

depth_reached_off_by_one(lvl, max) == lvl > max

\* level >= max_split
depth_reached(lvl, max) == lvl >= max

seed_done_swapped(pa, pb, cam) == <<Entry(pb, cam)>>

\* done.push((*a, to_screen_space(a, &camera)))
seed_done(pa, pb, cam) == <<Entry(pa, cam)>>

\* todo.push((*b, to_screen_space(b, &camera)))
seed_todo(pa, pb, cam) == <<Entry(pb, cam)>>

\* number of true markers on top of the branch_done stack
RECURSIVE finished_on_top(_)
finished_on_top(bd) ==
    IF bd = <<>> \/ ~bd[Len(bd)] THEN 0
    ELSE 1 + finished_on_top(SubSeq(bd, 1, Len(bd) - 1))

\* done.iter().map(|&x| x.1).collect()
collect(d) == [i \in 1 .. Len(d) |-> d[i].s]

\* the locals of approximate_curve as one value; panic: an expect failed
LoopState(d, t, l, bd, failed) ==
    [done |-> d, todo |-> t, level |-> l, branch_done |-> bd, panic |-> failed]

\* lines 131-139: the locals on entry to the while loop
loop_entry(pa, pb, cam) ==
    LoopState(seed_done(pa, pb, cam), seed_todo(pa, pb, cam), 0, <<FALSE>>, FALSE)

\* line 145: distance <= resolution || level >= max_split
accepts(st, res, max) ==
    \/ within_resolution(st.done[Len(st.done)], st.todo[Len(st.todo)], res)
    \/ depth_reached(st.level, max)

\* lines 146-153: push the pending point, unwind the finished branches
accept(st) ==
    LET end == st.todo[Len(st.todo)]
        k   == finished_on_top(st.branch_done)
        n   == Len(st.branch_done)
    IN  LoopState(Append(st.done, end),
                  SubSeq(st.todo, 1, Len(st.todo) - 1),
                  st.level - k,
                  IF k = n THEN <<>>
                  ELSE Append(SubSeq(st.branch_done, 1, n - k - 1), TRUE),
                  k = n)    \* branch_done.pop().expect("???") on an empty stack

\* the midpoint pushed without its branch marker
split_without_marker(st, cam) ==
    LET end   == st.todo[Len(st.todo)]
        begin == st.done[Len(st.done)]
        mid   == midpoint(begin.p, end.p)
    IN  LoopState(st.done,
                  Append(st.todo, Entry(mid, cam)),
                  st.level + 1,
                  st.branch_done,
                  FALSE)

\* lines 155-159: keep the pending point, push the midpoint one level deeper
split(st, cam) ==
    LET end   == st.todo[Len(st.todo)]
        begin == st.done[Len(st.done)]
        mid   == midpoint(begin.p, end.p)
    IN  LoopState(st.done,
                  Append(st.todo, Entry(mid, cam)),
                  st.level + 1,
                  Append(st.branch_done, FALSE),
                  FALSE)

\* one pass of the while loop; the locals unchanged once the loop has exited
\* or an expect has failed
iteration(st, cam, res, max) ==
    IF st.panic \/ st.todo = <<>> THEN st
    ELSE IF st.done = <<>> THEN [st EXCEPT !.panic = TRUE]
    ELSE IF accepts(st, res, max) THEN accept(st)
    ELSE split(st, cam)

\* 2^k passes of the while loop, stopping at its exit
RECURSIVE iterate(_, _, _, _, _)
iterate(st, cam, res, max, k) ==
    IF k = 0 THEN iteration(st, cam, res, max)
    ELSE LET half == iterate(st, cam, res, max, k - 1)
         IN  IF half.panic \/ half.todo = <<>> THEN half
             ELSE iterate(half, cam, res, max, k - 1)

\* the while loop run to its exit (or to a failed expect): with max_split at
\* most MAX_SPLIT it exits within 2^(MAX_SPLIT + 2) passes
run_loop(st, cam, res, max) == iterate(st, cam, res, max, MAX_SPLIT + 2)

\* approximate_curve as a function of its arguments
approximate_curve(pa, pb, cam, res, max) ==
    LET st == run_loop(loop_entry(pa, pb, cam), cam, res, max)
    IN  [panic |-> st.panic, points |-> collect(st.done)]

\* the locals of the run in progress
locals == LoopState(done, todo, level, branch_done, pc = "panic")

\* the loop condition holds and the first branch is taken (lines 140-145)
AcceptGuard ==
    /\ pc = "loop"
    /\ todo # <<>>
    /\ done # <<>>
    /\ accepts(locals, resolution, max_split)

\* the loop condition holds and the else branch is taken (lines 140-145, 154)
SplitGuard ==
    /\ pc = "loop"
    /\ todo # <<>>
    /\ done # <<>>
    /\ ~accepts(locals, resolution, max_split)

\* todo.pop() returns None: the loop exits (line 140)
ReturnGuard ==
    /\ pc = "loop"
    /\ todo = <<>>

\* one iteration taking the first branch (lines 145-153)
CurveAccept ==
    /\ AcceptGuard
    /\ LET st == accept(locals)
       IN  /\ done' = st.done
           /\ todo' = st.todo
           /\ level' = st.level
           /\ branch_done' = st.branch_done
           /\ pc' = IF st.panic THEN "panic" ELSE "loop"
    /\ iters' = iters + 1
    /\ UNCHANGED <<a, b, camera, resolution, max_split, mids, curve>>
    /\ UNCHANGED <<meshVars, visVars, polyVars, tickVars, quatVars>>

\* one iteration taking the else branch (lines 154-160)
CurveSplit ==
    /\ SplitGuard
    /\ LET st == split(locals, camera)
       IN  /\ done' = st.done
           /\ todo' = st.todo
           /\ level' = st.level
           /\ branch_done' = st.branch_done
    /\ iters' = iters + 1
    /\ mids' = mids + 1
    /\ UNCHANGED <<a, b, camera, resolution, max_split, curve, pc>>
    /\ UNCHANGED <<meshVars, visVars, polyVars, tickVars, quatVars>>

\* the loop exits on an empty todo and the function returns (line 163)
CurveReturn ==
    /\ ReturnGuard
    /\ curve' = collect(done)
    /\ pc' = "returned"
    /\ UNCHANGED <<a, b, camera, resolution, max_split, done, todo, level,
                   branch_done, iters, mids>>
    /\ UNCHANGED <<meshVars, visVars, polyVars, tickVars, quatVars>>

----------------------------------------------------------------------------
(* r3/quaternion.rs and r3/pose.rs *)

Quaternion(r, i, j, k) == [r |-> r, i |-> i, j |-> j, k |-> k]

zero_rotation == Quaternion(1, 0, 0, 0)

from_real_imaginary(real, imaginary) ==
    Quaternion(real, imaginary.x, imaginary.y, imaginary.z)

\* the product with the sign of one term of the k component slipped
qmul_sign_slip(p, q) ==
    Quaternion(p.r * q.r - p.i * q.i - p.j * q.j - p.k * q.k,
               p.r * q.i + p.i * q.r + p.j * q.k - p.k * q.j,
               p.r * q.j - p.i * q.k + p.j * q.r + p.k * q.i,
               p.r * q.k + p.i * q.j + p.j * q.i + p.k * q.r)

\* impl Mul<Quaternion> for Quaternion
qmul(p, q) ==
    Quaternion(p.r * q.r - p.i * q.i - p.j * q.j - p.k * q.k,
               p.r * q.i + p.i * q.r + p.j * q.k - p.k * q.j,
               p.r * q.j - p.i * q.k + p.j * q.r + p.k * q.i,
               p.r * q.k + p.i * q.j - p.j * q.i + p.k * q.r)

\* impl Div<f64> for Quaternion
qdiv(q, n) == Quaternion(tdiv(q.r, n), tdiv(q.i, n), tdiv(q.j, n), tdiv(q.k, n))

conjugate(q) == Quaternion(q.r, -q.i, -q.j, -q.k)

inverse(q) ==
    LET square_norm == q.r * q.r + q.i * q.i + q.j * q.j + q.k * q.k
    IN  qdiv(conjugate(q), square_norm)

\* the imaginary part with two components exchanged
imaginary_component_exchanged(q) == R3(q.j, q.i, q.k)

imaginary_component(q) == R3(q.i, q.j, q.k)

\* the product left without its right factor
rotate_without_inverse(q, vec) ==
    imaginary_component(qmul(q, from_real_imaginary(0, vec)))

\* Quaternion::rotate
rotate(q, vec) ==
    imaginary_component(qmul(qmul(q, from_real_imaginary(0, vec)), inverse(q)))

Pose(pos, orientation) == [pos |-> pos, orientation |-> orientation]

----------------------------------------------------------------------------
(* mesh.rs: Mesh, cuboid, mk_meshes *)

\* element i of a Vec, indices counted from 0 as in the program
at(vec, i) == vec[i + 1]

in_range(vec, i) == i >= 0 /\ i < Len(vec)

Mesh(vertices, edges, lines, triangles, parallelograms) ==
    [vertices |-> vertices, edges |-> edges, lines |-> lines,
     triangles |-> triangles, parallelograms |-> parallelograms]

\* a colour [f32; 4], in thousandths
Color(cr, cg, cb, ca) == <<cr, cg, cb, ca>>

\* an element of lines
LineFace(edge, col) == [edge |-> edge, color |-> col]

\* an element of triangles and parallelograms: (edge index, reversed) pairs
Face(refs, col) == [edges |-> refs, color |-> col]

\* the box with the closing edge of its first face traversed forwards
cuboid_with_flipped_edge(size, col) ==
    LET half_size == R3(size.x \div 2, size.y \div 2, size.z \div 2)
        hx == half_size.x
        hy == half_size.y
        hz == half_size.z
        vertices == << R3(hx, hy, hz), R3(hx, hy, -hz), R3(hx, -hy, -hz),
                       R3(hx, -hy, hz), R3(-hx, -hy, hz), R3(-hx, -hy, -hz),
                       R3(-hx, hy, -hz), R3(-hx, hy, hz) >>
        edges == << <<0, 1>>, <<1, 2>>, <<2, 3>>, <<3, 4>>, <<4, 5>>, <<5, 6>>,
                    <<6, 7>>, <<7, 0>>, <<0, 3>>, <<1, 6>>, <<2, 5>>, <<4, 7>> >>
        lines == [i \in 1 .. Len(edges) |-> LineFace(i - 1, col)]
        face_color == Color(col[1], col[2], col[3], col[4] \div 4)
        parallelograms ==
            << Face(<< <<0, FALSE>>, <<1, FALSE>>, <<2, FALSE>>, <<8, FALSE>> >>, face_color),
               Face(<< <<0, FALSE>>, <<9, FALSE>>, <<6, FALSE>>, <<7, FALSE>> >>, face_color),
               Face(<< <<1, FALSE>>, <<10, FALSE>>, <<5, FALSE>>, <<9, TRUE>> >>, face_color),
               Face(<< <<2, FALSE>>, <<3, FALSE>>, <<4, FALSE>>, <<10, TRUE>> >>, face_color),
               Face(<< <<3, FALSE>>, <<11, FALSE>>, <<7, FALSE>>, <<8, FALSE>> >>, face_color),
               Face(<< <<4, FALSE>>, <<5, FALSE>>, <<6, FALSE>>, <<11, TRUE>> >>, face_color) >>
    IN  Mesh(vertices, edges, lines, <<>>, parallelograms)

cuboid(size, col) ==
    LET half_size == R3(size.x \div 2, size.y \div 2, size.z \div 2)
        hx == half_size.x
        hy == half_size.y
        hz == half_size.z
        vertices == << R3(hx, hy, hz), R3(hx, hy, -hz), R3(hx, -hy, -hz),
                       R3(hx, -hy, hz), R3(-hx, -hy, hz), R3(-hx, -hy, -hz),
                       R3(-hx, hy, -hz), R3(-hx, hy, hz) >>
        edges == << <<0, 1>>, <<1, 2>>, <<2, 3>>, <<3, 4>>, <<4, 5>>, <<5, 6>>,
                    <<6, 7>>, <<7, 0>>, <<0, 3>>, <<1, 6>>, <<2, 5>>, <<4, 7>> >>
        lines == [i \in 1 .. Len(edges) |-> LineFace(i - 1, col)]
        face_color == Color(col[1], col[2], col[3], col[4] \div 4)
        parallelograms ==
            << Face(<< <<0, FALSE>>, <<1, FALSE>>, <<2, FALSE>>, <<8, TRUE>> >>, face_color),
               Face(<< <<0, FALSE>>, <<9, FALSE>>, <<6, FALSE>>, <<7, FALSE>> >>, face_color),
               Face(<< <<1, FALSE>>, <<10, FALSE>>, <<5, FALSE>>, <<9, TRUE>> >>, face_color),
               Face(<< <<2, FALSE>>, <<3, FALSE>>, <<4, FALSE>>, <<10, TRUE>> >>, face_color),
               Face(<< <<3, FALSE>>, <<11, FALSE>>, <<7, FALSE>>, <<8, FALSE>> >>, face_color),
               Face(<< <<4, FALSE>>, <<5, FALSE>>, <<6, FALSE>>, <<11, TRUE>> >>, face_color) >>
    IN  Mesh(vertices, edges, lines, <<>>, parallelograms)

\* the locals of mk_meshes that get_edge and the shape loop update
Builder(vertices, edges, edge_map, lines, triangles) ==
    [vertices |-> vertices, edges |-> edges, edge_map |-> edge_map,
     lines |-> lines, triangles |-> triangles]

\* the edge looked up and stored as given, b before a or not
get_edge_as_given(edges, edge_map, va, vb) ==
    IF <<va, vb>> \in DOMAIN edge_map
    THEN [edges |-> edges, edge_map |-> edge_map, index |-> edge_map[<<va, vb>>]]
    ELSE [edges |-> Append(edges, <<va, vb>>),
          edge_map |-> edge_map @@ (<<va, vb>> :> Len(edges)),
          index |-> Len(edges)]

\* get_edge: the index of the edge joining va and vb, appended when new;
\* returns the updated edges and edge_map with the index
RECURSIVE get_edge(_, _, _, _)
get_edge(edges, edge_map, va, vb) ==
    IF vb < va THEN get_edge(edges, edge_map, vb, va)
    ELSE IF <<va, vb>> \in DOMAIN edge_map
         THEN [edges |-> edges, edge_map |-> edge_map, index |-> edge_map[<<va, vb>>]]
         ELSE [edges |-> Append(edges, <<va, vb>>),
               edge_map |-> edge_map @@ (<<va, vb>> :> Len(edges)),
               index |-> Len(edges)]

\* the body of the loop over shapes, for one primitive (lines 86-115)
add_shape(bld, shape, vertex_offset, col, face_color) ==
    IF shape.kind = "Line" THEN
        LET va == shape.v[1] + vertex_offset
            vb == shape.v[2] + vertex_offset
            e  == get_edge(bld.edges, bld.edge_map, va, vb)
        IN  Builder(bld.vertices, e.edges, e.edge_map,
                    Append(bld.lines, LineFace(e.index, col)), bld.triangles)
    ELSE IF shape.kind = "Triangle" THEN
        LET va == shape.v[1] + vertex_offset
            vb == shape.v[2] + vertex_offset
            vc == shape.v[3] + vertex_offset
            ab == get_edge(bld.edges, bld.edge_map, va, vb)
            bc == get_edge(ab.edges, ab.edge_map, vb, vc)
            ca == get_edge(bc.edges, bc.edge_map, vc, va)
            edges == ca.edges
        IN  Builder(bld.vertices, edges, ca.edge_map, bld.lines,
                    Append(bld.triangles,
                           Face(<< <<ab.index, at(edges, ab.index)[1] # va>>,
                                   <<bc.index, at(edges, bc.index)[1] # vb>>,
                                   <<ca.index, at(edges, ca.index)[1] # vc>> >>,
                                face_color)))
    ELSE bld    \* Primitive::Point: ignored

RECURSIVE add_shapes(_, _, _, _, _)
add_shapes(bld, shapes, vertex_offset, col, face_color) ==
    IF shapes = <<>> THEN bld
    ELSE add_shapes(add_shape(bld, Head(shapes), vertex_offset, col, face_color),
                    Tail(shapes), vertex_offset, col, face_color)

\* the loop over the objects of the parsed file (lines 80-118)
RECURSIVE add_objects(_, _, _, _)
add_objects(bld, objects, col, face_color) ==
    IF objects = <<>> THEN bld
    ELSE LET object == Head(objects)
             vertex_offset == Len(bld.vertices)
             extended == [bld EXCEPT !.vertices = bld.vertices \o object.vertices]
         IN  add_objects(add_shapes(extended, object.shapes, vertex_offset, col, face_color),
                         Tail(objects), col, face_color)

\* mk_meshes on the parsed object set of a readable file
mk_meshes(objects, col) ==
    LET face_color == Color(col[1], col[2], col[3], col[4] \div 8)
        bld == add_objects(Builder(<<>>, <<>>, <<>>, <<>>, <<>>), objects, col, face_color)
    IN  Mesh(bld.vertices, bld.edges, bld.lines, bld.triangles, <<>>)

\* vertices.iter().position(|&nv| nv == v): the first index holding v, or
\* Len(vertices) when there is none
RECURSIVE first_position(_, _, _)
first_position(vertices, v, from) ==
    IF from >= Len(vertices) \/ at(vertices, from) = v THEN from
    ELSE first_position(vertices, v, from + 1)

\* lines 12-26: the vertices without repetitions, and for every old vertex
\* index the index of its position among them
RECURSIVE condense_vertices(_, _, _)
condense_vertices(old, mapping, vertices) ==
    IF old = <<>> THEN [mapping |-> mapping, vertices |-> vertices]
    ELSE LET index == first_position(vertices, Head(old), 0)
         IN  condense_vertices(Tail(old), Append(mapping, index),
                               IF index < Len(vertices) THEN vertices
                               ELSE Append(vertices, Head(old)))

\* mapping[a] or mapping[b] of line 33 is out of range for some edge
condense_panics(m) ==
    \E i \in 1 .. Len(m.edges) :
        ~in_range(m.vertices, m.edges[i][1]) \/ ~in_range(m.vertices, m.edges[i][2])

remap_edges_unchanged(edges, mapping) == edges

\* lines 30-34: .map(|&(a, b)| (mapping[a], mapping[b]))
remap_edges(edges, mapping) ==
    [i \in 1 .. Len(edges) |-> <<at(mapping, edges[i][1]), at(mapping, edges[i][2])>>]

\* condense_mesh on a mesh whose edges index the vertices
condense_mesh(m) ==
    LET c == condense_vertices(m.vertices, <<>>, <<>>)
    IN  Mesh(c.vertices, remap_edges(m.edges, c.mapping),
             m.lines, m.triangles, m.parallelograms)

----------------------------------------------------------------------------
(* mesh.rs: the face visibility tests *)

\* num * (1 / det) >= 0.0; with det = 0 the product is infinite or NaN
ratio_ge_zero(num, det) ==
    IF det > 0 THEN num >= 0
    ELSE IF det < 0 THEN num <= 0
    ELSE num > 0

\* num * (1 / det) <= 1.0; false for a NaN
ratio_le_one(num, det) ==
    IF det > 0 THEN num <= det
    ELSE IF det < 0 THEN num >= det
    ELSE num < 0

\* lines 195-204 and 212-221: the numerators of t, u, v, and 1 / invdet
intersection(org, dir, va, vb, vc) ==
    LET normal == cross(sub(va, vb), sub(va, vc))
        ao     == sub(va, org)
        m      == cross(dir, ao)
    IN  [det |-> dot(dir, normal),
         t   |-> dot(ao, normal),
         u   |-> dot(sub(va, vc), m),
         v   |-> -dot(sub(va, vb), m)]

\* line 206: t >= 0.0 && u >= 0.0 && v >= 0.0 && u <= 1.0 && v <= 1.0
parallelogram_domain(i) ==
    /\ ratio_ge_zero(i.t, i.det) /\ ratio_ge_zero(i.u, i.det)
    /\ ratio_ge_zero(i.v, i.det)
    /\ ratio_le_one(i.u, i.det) /\ ratio_le_one(i.v, i.det)

triangle_domain_as_parallelogram(i) == parallelogram_domain(i)

\* line 223: t >= 0.0 && u >= 0.0 && v >= 0.0 && u + v <= 1.0
triangle_domain(i) ==
    /\ ratio_ge_zero(i.t, i.det) /\ ratio_ge_zero(i.u, i.det)
    /\ ratio_ge_zero(i.v, i.det) /\ ratio_le_one(i.u + i.v, i.det)

\* fc = [a, b, c]
intersects_triangle(org, dir, fc) ==
    triangle_domain(intersection(org, dir, fc[1], fc[2], fc[3]))

\* let [a, b, _, c] = *face
intersects_parallelogram(org, dir, fc) ==
    parallelogram_domain(intersection(org, dir, fc[1], fc[2], fc[4]))

----------------------------------------------------------------------------
(* mesh.rs: render_mesh *)

\* const RESOLUTION of render_mesh
RESOLUTION == 40

\* the Camera render_mesh is given: a position, an orientation and a scale
ViewCamera(position, orientation, scale) ==
    [position |-> position, orientation |-> orientation, scale |-> scale]

\* the forward and right vectors of a camera: the world axes (1,0,0) and
\* (0,1,0) rotated by its orientation
camera_basis(cam) ==
    Camera(cam.position, rotate(cam.orientation, R3(1, 0, 0)),
           rotate(cam.orientation, R3(0, 1, 0)), cam.scale)

backward_is_forward(cam) == rotate(cam.orientation, R3(1, 0, 0))

\* lines 262-266
backward_of(cam) == rotate(cam.orientation, R3(-1, 0, 0))

\* a record of one call of render_curve or draw_poly
Draw(call, col, points, flag) ==
    [call |-> call, color |-> col, points |-> points, is_behind |-> flag]

reversed(seq) == [i \in 1 .. Len(seq) |-> seq[Len(seq) + 1 - i]]

oriented_ignoring_flag(points, rev) == points

\* lines 284-288: curves[ci].iter().rev() when rev, else &curves[ci]
oriented(points, rev) == IF rev THEN reversed(points) ELSE points

\* lines 282-289 and 308-315: the polyline of a face from the cached curves
RECURSIVE face_points(_, _)
face_points(refs, cache) ==
    IF refs = <<>> THEN <<>>
    ELSE oriented(at(cache, Head(refs)[1]), Head(refs)[2])
            \o face_points(Tail(refs), cache)

\* lines 273-279 and 299-305: the vertex a directed edge starts at
start_vertex(ref, edges) ==
    IF ref[2] THEN at(edges, ref[1])[2] ELSE at(edges, ref[1])[1]

face_vertices(refs, edges, tv) ==
    [i \in 1 .. Len(refs) |-> at(tv, start_vertex(refs[i], edges))]

\* every index a face uses exists: no slice index panics
face_in_range(refs, edges, tv, cache) ==
    \A i \in 1 .. Len(refs) :
        /\ in_range(edges, refs[i][1])
        /\ in_range(cache, refs[i][1])
        /\ in_range(tv, start_vertex(refs[i], edges))

calls_of_face_recomputing(refs, edges) ==
    [i \in 1 .. Len(refs) |-> at(edges, refs[i][1])]

\* the approximate_curve invocations a face makes: none, it reads curves[ci]
calls_of_face(refs, edges) == <<>>

\* where render_mesh stands after nc curves and nd draw calls
next_phase(m, nc, nd) ==
    IF nc < Len(m.edges) THEN "curves"
    ELSE IF nd < Len(m.lines) THEN "lines"
    ELSE IF nd < Len(m.lines) + Len(m.triangles) THEN "triangles"
    ELSE IF nd < Len(m.lines) + Len(m.triangles) + Len(m.parallelograms)
         THEN "parallelograms"
    ELSE "rendered"

\* lines 238-242
RenderTransform ==
    /\ pc = "transform"
    /\ transformed_vertices' =
          [i \in 1 .. Len(mesh.vertices) |->
              add(rotate(pose.orientation, mesh.vertices[i]), pose.pos)]
    /\ pc' = next_phase(mesh, 0, 0)
    /\ UNCHANGED <<mesh, pose, mesh_camera, curves, curve_calls, draws>>
    /\ UNCHANGED <<curveVars, visVars, polyVars, tickVars, quatVars>>

\* lines 244-256: the curve of the next edge
RenderCurve ==
    /\ pc = "curves"
    /\ LET e == at(mesh.edges, Len(curves))
       IN  IF in_range(transformed_vertices, e[1]) /\ in_range(transformed_vertices, e[2])
           THEN LET c == approximate_curve(at(transformed_vertices, e[1]),
                                           at(transformed_vertices, e[2]),
                                           camera_basis(mesh_camera),
                                           RESOLUTION, MAX_SPLIT)
                IN  /\ curve_calls' = Append(curve_calls, e)
                    /\ curves' = Append(curves, c.points)
                    /\ pc' = IF c.panic THEN "panic"
                             ELSE next_phase(mesh, Len(curves) + 1, 0)
           ELSE /\ pc' = "panic"
                /\ UNCHANGED <<curves, curve_calls>>
    /\ UNCHANGED <<mesh, pose, mesh_camera, transformed_vertices, draws>>
    /\ UNCHANGED <<curveVars, visVars, polyVars, tickVars, quatVars>>

\* lines 258-260: the next line face
RenderLine ==
    /\ pc = "lines"
    /\ LET f == at(mesh.lines, Len(draws))
       IN  IF in_range(curves, f.edge)
           THEN /\ draws' = Append(draws, Draw("render_curve", f.color,
                                               at(curves, f.edge), FALSE))
                /\ pc' = next_phase(mesh, Len(curves), Len(draws) + 1)
           ELSE /\ pc' = "panic"
                /\ UNCHANGED draws
    /\ UNCHANGED <<mesh, pose, mesh_camera, transformed_vertices, curves, curve_calls>>
    /\ UNCHANGED <<curveVars, visVars, polyVars, tickVars, quatVars>>

\* lines 273-280 and 299-306: the visibility flag of a face
face_flag(f) ==
    LET vs == face_vertices(f.edges, mesh.edges, transformed_vertices)
    IN  IF Len(f.edges) = 3
        THEN intersects_triangle(mesh_camera.position, backward_of(mesh_camera), vs)
        ELSE intersects_parallelogram(mesh_camera.position, backward_of(mesh_camera), vs)

\* the body of the loops over triangles and parallelograms for the face f
render_face(f) ==
    IF face_in_range(f.edges, mesh.edges, transformed_vertices, curves)
    THEN /\ draws' = Append(draws, Draw("draw_poly", f.color,
                                        face_points(f.edges, curves), face_flag(f)))
         /\ curve_calls' = curve_calls \o calls_of_face(f.edges, mesh.edges)
         /\ pc' = next_phase(mesh, Len(curves), Len(draws) + 1)
    ELSE /\ pc' = "panic"
         /\ UNCHANGED <<draws, curve_calls>>

\* lines 272-292: the next triangle face
RenderTriangle ==
    /\ pc = "triangles"
    /\ render_face(at(mesh.triangles, Len(draws) - Len(mesh.lines)))
    /\ UNCHANGED <<mesh, pose, mesh_camera, transformed_vertices, curves>>
    /\ UNCHANGED <<curveVars, visVars, polyVars, tickVars, quatVars>>

\* lines 298-318: the next parallelogram face
RenderParallelogram ==
    /\ pc = "parallelograms"
    /\ render_face(at(mesh.parallelograms,
                      Len(draws) - Len(mesh.lines) - Len(mesh.triangles)))
    /\ UNCHANGED <<mesh, pose, mesh_camera, transformed_vertices, curves>>
    /\ UNCHANGED <<curveVars, visVars, polyVars, tickVars, quatVars>>

\* the two visibility tests as operations of their own
VisTriangle ==
    /\ pc = "test"
    /\ Len(face) = 3
    /\ behind' = intersects_triangle(origin, direction, face)
    /\ pc' = "tested"
    /\ UNCHANGED <<origin, direction, face>>
    /\ UNCHANGED <<curveVars, meshVars, polyVars, tickVars, quatVars>>

VisParallelogram ==
    /\ pc = "test"
    /\ Len(face) = 4
    /\ behind' = intersects_parallelogram(origin, direction, face)
    /\ pc' = "tested"
    /\ UNCHANGED <<origin, direction, face>>
    /\ UNCHANGED <<curveVars, meshVars, polyVars, tickVars, quatVars>>

----------------------------------------------------------------------------
(* The construction of a mesh, followed by its rendering *)

\* the states in which mesh holds the result of a constructor
Constructed == {"cuboid_built", "mk_built", "condensed"}

\* mesh::cuboid(size, color)
BuildCuboid(size, col) ==
    /\ pc = "construct"
    /\ mesh' = cuboid(size, col)
    /\ pc' = "cuboid_built"
    /\ UNCHANGED <<pose, mesh_camera, transformed_vertices, curves, curve_calls, draws>>
    /\ UNCHANGED <<curveVars, visVars, polyVars, tickVars, quatVars>>

\* mesh::mk_meshes(path, color) on a file that is read and parsed
BuildMkMeshes(objects, col) ==
    /\ pc = "construct"
    /\ mesh' = mk_meshes(objects, col)
    /\ pc' = "mk_built"
    /\ UNCHANGED <<pose, mesh_camera, transformed_vertices, curves, curve_calls, draws>>
    /\ UNCHANGED <<curveVars, visVars, polyVars, tickVars, quatVars>>

\* lines 43-45: the file cannot be read or parsed, mk_meshes returns Err
MkMeshesError ==
    /\ pc = "construct"
    /\ pc' = "error"
    /\ UNCHANGED meshVars
    /\ UNCHANGED <<curveVars, visVars, polyVars, tickVars, quatVars>>

\* mesh::condense_mesh(&mesh), on the result of a constructor or on a Mesh
\* value its caller has written
CondenseMesh ==
    /\ pc \in Constructed \cup {"literal"}
    /\ IF condense_panics(mesh)
       THEN pc' = "condense_panic" /\ mesh' = mesh
       ELSE pc' = "condensed" /\ mesh' = condense_mesh(mesh)
    /\ UNCHANGED <<pose, mesh_camera, transformed_vertices, curves, curve_calls, draws>>
    /\ UNCHANGED <<curveVars, visVars, polyVars, tickVars, quatVars>>

\* the call of render_mesh on a constructed mesh
StartRender ==
    /\ pc \in Constructed
    /\ pc' = "transform"
    /\ UNCHANGED meshVars
    /\ UNCHANGED <<curveVars, visVars, polyVars, tickVars, quatVars>>

----------------------------------------------------------------------------
(* main.rs: GameObject::physics_step and App::update *)

\* angles are counted in half turns (units of pi), so that the cosine and
\* sine of half an angle are exact: (angle / 2.0).cos() and (angle / 2.0).sin()
cos_half(angle) ==
    LET n == angle % 4
    IN  IF n = 0 THEN 1 ELSE IF n = 2 THEN -1 ELSE 0

sin_half(angle) ==
    LET n == angle % 4
    IN  IF n = 1 THEN 1 ELSE IF n = 3 THEN -1 ELSE 0

\* Quaternion::rotation
rotation(axis, angle) ==
    from_real_imaginary(cos_half(angle), mul(axis, sin_half(angle)))

\* R3::normalized
normalized(v) ==
    R3(tdiv(v.x, norm(v)), tdiv(v.y, norm(v)), tdiv(v.z, norm(v)))

square_norm(q) == q.r * q.r + q.i * q.i + q.j * q.j + q.k * q.k

\* the fields of a GameObject that physics_step reads and writes
GameObject(obj_pose, velocity, acceleration, angular_velocity, angular_acceleration) ==
    [pose |-> obj_pose, velocity |-> velocity, acceleration |-> acceleration,
     angular_velocity |-> angular_velocity,
     angular_acceleration |-> angular_acceleration]

\* v * 0.5
halved(v) == R3(tdiv(v.x, 2), tdiv(v.y, 2), tdiv(v.z, 2))

\* GameObject::physics_step
physics_step(obj, dt) ==
    LET velocity         == add(obj.velocity, mul(obj.acceleration, dt))
        pos              == add(obj.pose.pos, mul(velocity, dt))
        angular_velocity == add(obj.angular_velocity, mul(obj.angular_acceleration, dt))
        orientation      == qmul(from_real_imaginary(1, mul(halved(angular_velocity), dt)),
                                 obj.pose.orientation)
    IN  GameObject(Pose(pos, orientation), velocity, obj.acceleration,
                   angular_velocity, obj.angular_acceleration)

\* the fields of the App that update reads and writes, but for the input
App(cam, velocity, acceleration, control_magnitude) ==
    [camera |-> cam, velocity |-> velocity, acceleration |-> acceleration,
     control_magnitude |-> control_magnitude]

\* the input state the event handlers have left for update: the pressed
\* keys and the mouse; mouse_mov is counted in units that turn by half a turn
Input(mouse_right, mouse_mov, mouse_scroll, forward, back, left, right, up, down) ==
    [mouse_right |-> mouse_right, mouse_mov |-> mouse_mov,
     mouse_scroll |-> mouse_scroll, forward |-> forward, back |-> back,
     left |-> left, right |-> right, up |-> up, down |-> down]

\* lines 370-378, 382-390, 395-403: -m, m or 0.0 for a pair of opposite keys
control(first, second, magnitude) ==
    IF first /\ ~second THEN -magnitude
    ELSE IF ~first /\ second THEN magnitude
    ELSE 0

\* lines 343-357: the camera turned about the origin by the mouse
mouse_turned(cam, in) ==
    IF in.mouse_right /\ in.mouse_mov # <<0, 0>>
    THEN LET angular_velocity == R3(0, -in.mouse_mov[2], in.mouse_mov[1])
             axis  == rotate(cam.orientation, normalized(angular_velocity))
             angle == norm(angular_velocity)
             turn  == rotation(axis, angle)
         IN  ViewCamera(rotate(turn, cam.position), qmul(turn, cam.orientation), cam.scale)
    ELSE cam

\* lines 360-367: the camera moved along its forward axis by the wheel
mouse_scrolled(cam, in) ==
    IF in.mouse_scroll[2] # 0
    THEN LET distance == norm(cam.position)
             velocity == tdiv(in.mouse_scroll[2] * distance * 5, 100)
         IN  ViewCamera(add(cam.position, rotate(cam.orientation, R3(velocity, 0, 0))),
                        cam.orientation, cam.scale)
    ELSE cam

\* lines 369-412: pitch, roll and speed
update_camera(ap, in, dt) ==
    LET cam         == mouse_scrolled(mouse_turned(ap.camera, in), in)
        pitch_rate  == control(in.forward, in.back, ap.control_magnitude)
        o1          == qmul(cam.orientation, rotation(R3(0, 1, 0), pitch_rate * dt))
        roll_rate   == control(in.right, in.left, ap.control_magnitude)
        orientation == qmul(o1, rotation(R3(1, 0, 0), roll_rate * dt))
        velocity    == ap.velocity + control(in.up, in.down, ap.acceleration) * dt
        forward     == rotate(orientation, R3(1, 0, 0))
    IN  App(ViewCamera(add(cam.position, mul(mul(forward, velocity), dt)),
                       orientation, cam.scale),
            velocity, ap.acceleration, ap.control_magnitude)

\* the update ticks a run of the model takes
MaxTicks == 3

\* App::update for one UpdateArgs: the camera, then every object
Update(in, dt) ==
    /\ pc = "tick"
    /\ ticks < MaxTicks
    /\ app' = update_camera(app, in, dt)
    /\ game_object' = physics_step(game_object, dt)
    /\ ticks' = ticks + 1
    /\ pc' = "tick"
    /\ UNCHANGED <<curveVars, meshVars, visVars, polyVars, quatVars>>

----------------------------------------------------------------------------
(* render.rs: the graphics sink, flush_graphics and draw_poly *)

\* the sink: the draw state GlGraphics believes is current ("none" after
\* clear_draw_state), the stencil test and the stencil operation of the GL
\* context, and the calls it has executed
Sink(draw_state, test, op, log) ==
    [draw_state |-> draw_state, test |-> test, op |-> op, log |-> log,
     stencil |-> {}, frame |-> {}]

\* the stencil test and operation a DrawState asks for: default() none,
\* new_clip() writes the stencil and masks the colour, new_inside() tests it
test_of(ds) == IF ds = "clip" THEN "never" ELSE IF ds = "inside" THEN "equal" ELSE "off"

op_of(ds) == IF ds = "clip" THEN "replace" ELSE "keep"

\* an executed call, with the stencil state in force once it has run
Logged(gs, call, shape, data) ==
    [gs EXCEPT !.log = Append(@, [call |-> call, shape |-> shape, data |-> data,
                                  test |-> gs.test, op |-> gs.op])]

\* g.use_draw_state(&ds)
use_draw_state(gs, ds) ==
    Logged([gs EXCEPT !.draw_state = ds, !.test = test_of(ds), !.op = op_of(ds)],
           "use_draw_state", ds, <<>>)

\* g.clear_draw_state()
clear_draw_state(gs) ==
    Logged([gs EXCEPT !.draw_state = "none"], "clear_draw_state", "", <<>>)

\* g.clear_stencil(0)
clear_stencil(gs) == Logged([gs EXCEPT !.stencil = {}], "clear_stencil", "", <<>>)

stencil_op_left_at_replace(gs) == Logged(gs, "StencilOp", "", <<>>)

\* gl::StencilOp(gl::INVERT, gl::KEEP, gl::KEEP)
stencil_op_invert(gs) ==
    Logged([gs EXCEPT !.op = "invert"], "StencilOp", "", <<>>)

\* half the side of the square the projection draws into: the rectangles and
\* the ellipse of draw_poly span [-540, 540] in x and y
HALF_SCREEN == 540

\* the sampled pixels: the points of the screen square on a lattice of
\* PixelPitch units
PixelPitch == 180

Pixels ==
    LET n == HALF_SCREEN \div PixelPitch
    IN  { <<x * PixelPitch, y * PixelPitch>> : x \in -n .. n, y \in -n .. n }

\* (e - s) x (p - s) for screen points
edge_side(s, e, p) ==
    (e[1] - s[1]) * (p[2] - s[2]) - (e[2] - s[2]) * (p[1] - s[1])

\* the rasteriser's rule for a sample on the edge s -> e: it belongs to the
\* triangle on one side of the edge only, so that two triangles sharing an
\* edge never both produce it
owns_edge(s, e) == e[2] > s[2] \/ (e[2] = s[2] /\ e[1] < s[1])

\* the sample p is produced by the rasterisation of the triangle tri
covers(tri, p) ==
    LET area == edge_side(tri[1], tri[2], tri[3])
        t1   == tri[1]
        t2   == IF area > 0 THEN tri[2] ELSE tri[3]
        t3   == IF area > 0 THEN tri[3] ELSE tri[2]
        inside(s, e) == edge_side(s, e, p) > 0
                        \/ (edge_side(s, e, p) = 0 /\ owns_edge(s, e))
    IN  area # 0 /\ inside(t1, t2) /\ inside(t2, t3) /\ inside(t3, t1)

\* a rectangle [x, y, w, h] is drawn as two triangles
rect_covers(x, y, w, h, p) ==
    \/ covers(<< <<x, y>>, <<x + w, y>>, <<x, y + h>> >>, p)
    \/ covers(<< <<x + w, y>>, <<x + w, y + h>>, <<x, y + h>> >>, p)

\* the pixels a shape produces: a fan triangle, the ellipse inscribed in
\* square(-540, -540, 1080), the fill rectangle [-540, -540, 1080, 1080],
\* the rectangle [-540, -540, 1, 1] of flush_graphics, a HUD line at the centre
covered(shape, data) ==
    IF shape = "triangle" THEN { p \in Pixels : covers(data, p) }
    ELSE IF shape = "ellipse"
    THEN { p \in Pixels : p[1] * p[1] + p[2] * p[2] < HALF_SCREEN * HALF_SCREEN }
    ELSE IF shape = "fill_rect"
    THEN { p \in Pixels : rect_covers(-HALF_SCREEN, -HALF_SCREEN,
                                      2 * HALF_SCREEN, 2 * HALF_SCREEN, p) }
    ELSE IF shape = "flush_rect"
    THEN { p \in Pixels : rect_covers(-HALF_SCREEN, -HALF_SCREEN, 1, 1, p) }
    ELSE { p \in Pixels : p = <<0, 0>> }

\* the pixels a draw reaches under the stencil state in force: with the test
\* at never every fragment fails and the stencil operation is applied to it
\* (invert toggles the bit, replace sets it), nothing is coloured; with the
\* test at equal the pixels whose bit is set are coloured; with the test off
\* every covered pixel is coloured.  frame holds the pixels coloured by the
\* masked fill
rasterise(gs, shape, data) ==
    LET cov == covered(shape, data)
    IN  IF gs.test = "never"
        THEN [gs EXCEPT !.stencil =
                 IF gs.op = "invert" THEN (@ \ cov) \cup (cov \ @)
                 ELSE IF gs.op = "replace" THEN @ \cup cov
                 ELSE @]
        ELSE IF gs.test = "equal"
        THEN [gs EXCEPT !.frame = IF shape = "fill_rect"
                                  THEN @ \cup (cov \cap gs.stencil)
                                  ELSE @ \ (cov \cap gs.stencil)]
        ELSE [gs EXCEPT !.frame = IF shape = "fill_rect" THEN @ \cup cov
                                  ELSE @ \ cov]

\* <shape>.draw(.., &ds, transform, g): the sink switches to ds when it is
\* not current, then rasterises under the stencil state then in force
sink_draw(gs, shape, data, ds) ==
    Logged(rasterise(IF gs.draw_state = ds THEN gs ELSE use_draw_state(gs, ds),
                     shape, data),
           "draw", shape, data)

flush_graphics_skipped(gs) == gs

\* lines 202-208
flush_graphics(gs) ==
    sink_draw(clear_draw_state(sink_draw(gs, "flush_rect", <<>>, "default")),
              "flush_rect", <<>>, "default")

\* where draw_poly stands when prev is at index n of poly
after_fan(n) ==
    IF n + 1 < Len(poly) THEN "fan"
    ELSE IF is_behind THEN "invert" ELSE "fill"

\* line 219
PolyFlushBefore ==
    /\ pc = "flush_before"
    /\ g' = flush_graphics(g)
    /\ pc' = "stencil"
    /\ UNCHANGED <<color, poly, is_behind, prev>>
    /\ UNCHANGED <<curveVars, meshVars, visVars, tickVars, quatVars>>

\* lines 222-227
PolyEnterStencil ==
    /\ pc = "stencil"
    /\ g' = stencil_op_invert(clear_stencil(use_draw_state(g, "clip")))
    /\ pc' = "anchor"
    /\ UNCHANGED <<color, poly, is_behind, prev>>
    /\ UNCHANGED <<curveVars, meshVars, visVars, tickVars, quatVars>>

\* lines 229-232: poly[0], poly[1] and &poly[2..] panic on a shorter poly
PolyAnchor ==
    /\ pc = "anchor"
    /\ IF Len(poly) < 2
       THEN pc' = "panic" /\ prev' = prev
       ELSE pc' = after_fan(1) /\ prev' = 1
    /\ UNCHANGED <<color, poly, is_behind, g>>
    /\ UNCHANGED <<curveVars, meshVars, visVars, tickVars, quatVars>>

\* lines 232-235: one fan triangle [anchor, prev, next]
PolyFan ==
    /\ pc = "fan"
    /\ g' = sink_draw(g, "triangle", <<poly[1], poly[prev + 1], poly[prev + 2]>>, "clip")
    /\ prev' = prev + 1
    /\ pc' = after_fan(prev + 1)
    /\ UNCHANGED <<color, poly, is_behind>>
    /\ UNCHANGED <<curveVars, meshVars, visVars, tickVars, quatVars>>

PolyInvertSkipped ==
    /\ pc = "invert"
    /\ pc' = "fill"
    /\ UNCHANGED <<color, poly, is_behind, prev, g>>
    /\ UNCHANGED <<curveVars, meshVars, visVars, tickVars, quatVars>>

\* lines 237-240
PolyInvert ==
    /\ pc = "invert"
    /\ g' = sink_draw(g, "ellipse", <<>>, "clip")
    /\ pc' = "fill"
    /\ UNCHANGED <<color, poly, is_behind, prev>>
    /\ UNCHANGED <<curveVars, meshVars, visVars, tickVars, quatVars>>

\* lines 242-243
PolyFill ==
    /\ pc = "fill"
    /\ g' = sink_draw(g, "fill_rect", color, "inside")
    /\ pc' = "flush_after"
    /\ UNCHANGED <<color, poly, is_behind, prev>>
    /\ UNCHANGED <<curveVars, meshVars, visVars, tickVars, quatVars>>

\* line 245, and the return
PolyFlushAfter ==
    /\ pc = "flush_after"
    /\ g' = flush_graphics(g)
    /\ pc' = "drawn"
    /\ UNCHANGED <<color, poly, is_behind, prev>>
    /\ UNCHANGED <<curveVars, meshVars, visVars, tickVars, quatVars>>

\* a draw the caller issues next with the context's draw state, such as the
\* HUD lines of App::render
DrawAfter ==
    /\ pc = "drawn"
    /\ g' = sink_draw(g, "hud_line", <<>>, "default")
    /\ pc' = "after"
    /\ UNCHANGED <<color, poly, is_behind, prev>>
    /\ UNCHANGED <<curveVars, meshVars, visVars, tickVars, quatVars>>

----------------------------------------------------------------------------
(* The variables of the operations a specification does not run *)

Origin == R3(0, 0, 0)

CurveIdle ==
    /\ a = Origin /\ b = Origin /\ camera = <<>> /\ resolution = 0 /\ max_split = 0
    /\ done = <<>> /\ todo = <<>> /\ level = 0 /\ branch_done = <<>>
    /\ iters = 0 /\ mids = 0 /\ curve = <<>>

MeshIdle ==
    /\ mesh = <<>> /\ pose = <<>> /\ mesh_camera = <<>>
    /\ transformed_vertices = <<>> /\ curves = <<>>
    /\ curve_calls = <<>> /\ draws = <<>>

VisIdle ==
    /\ origin = Origin /\ direction = Origin /\ face = <<>> /\ behind = FALSE

PolyIdle ==
    /\ color = <<>> /\ poly = <<>> /\ is_behind = FALSE /\ prev = 0 /\ g = <<>>

TickIdle == game_object = <<>> /\ app = <<>> /\ ticks = 0

QuatIdle ==
    /\ quat_a = zero_rotation /\ quat_b = zero_rotation /\ quat_c = zero_rotation
    /\ vector = Origin /\ out = <<>>

----------------------------------------------------------------------------
(* Inputs of the curve runs *)

AxisX == R3(1, 0, 0)

AxisY == R3(0, 1, 0)

AxisZ == R3(0, 0, 1)

\* end points of the approximated segments
CurvePoints ==
    { R3(Grid, 0, 0), R3(-Grid, 0, 0), R3(Grid, Grid, 0), R3(0, Grid, Grid),
      R3(-Grid, Grid, 0), R3(-Grid, -Grid, 0), R3(2 * Grid, -Grid, Grid) }

\* main.rs: scale = 1080 / PI / 2
CameraScale == 172

CurveCameras ==
    { Camera(Origin, AxisX, AxisY, CameraScale),
      Camera(R3(-30, 0, -30), AxisX, AxisY, CameraScale),
      Camera(R3(0, -Grid, 0), AxisZ, AxisX, CameraScale) }

Resolutions == {0, 40, 50, 2000}

MaxSplits == (-1) .. MaxSplitBound

InitCurve ==
    /\ pc = "loop"
    /\ \E pa \in CurvePoints, pb \in CurvePoints, cam \in CurveCameras,
          res \in Resolutions, max \in MaxSplits :
          /\ a = pa /\ b = pb /\ camera = cam /\ resolution = res /\ max_split = max
          /\ done = seed_done(pa, pb, cam)
          /\ todo = seed_todo(pa, pb, cam)
    /\ level = 0
    /\ branch_done = <<FALSE>>
    /\ iters = 0 /\ mids = 0 /\ curve = <<>>
    /\ MeshIdle /\ VisIdle /\ PolyIdle /\ TickIdle /\ QuatIdle

NextCurve == CurveAccept \/ CurveSplit \/ CurveReturn

SpecCurve == InitCurve /\ [][NextCurve]_vars

----------------------------------------------------------------------------
(* Inputs of the render_mesh runs *)

Purple == Color(500, 0, 500, 1000)

Teal == Color(0, 500, 500, 1000)

Shape(kind, v) == [kind |-> kind, v |-> v]

Object(vertices, shapes) == [vertices |-> vertices, shapes |-> shapes]

\* a tetrahedron with one of its edges also given as a line, and a point
TetrahedronObj ==
    << Object(<< Origin, R3(Grid, 0, 0), R3(0, Grid, 0), R3(0, 0, Grid) >>,
              << Shape("Triangle", <<0, 1, 2>>), Shape("Triangle", <<0, 3, 1>>),
                 Shape("Line", <<1, 0>>), Shape("Point", <<3>>),
                 Shape("Triangle", <<0, 2, 3>>), Shape("Triangle", <<1, 3, 2>>) >>) >>

\* two objects: a line, then two triangles sharing an edge
TwoObjects ==
    << Object(<< R3(0, 0, -Grid), R3(0, Grid, -Grid) >>, << Shape("Line", <<0, 1>>) >>),
       Object(<< R3(Grid, 0, 0), R3(0, Grid, 0), R3(-Grid, 0, 0), R3(0, 0, Grid) >>,
              << Shape("Triangle", <<2, 1, 0>>), Shape("Triangle", <<0, 1, 3>>) >>) >>

Meshes ==
    { cuboid(R3(Grid, Grid, Grid), Purple),
      cuboid(R3(2 * Grid, Grid, Grid), Teal),
      mk_meshes(TetrahedronObj, Teal),
      mk_meshes(TwoObjects, Purple) }

Poses ==
    { Pose(Origin, zero_rotation),
      Pose(R3(Grid, 0, 0), Quaternion(0, 0, 0, 1)),
      Pose(R3(0, Grid, -Grid), Quaternion(0, 1, 0, 0)) }

ViewCameras ==
    { ViewCamera(R3(-30, 7, -30), zero_rotation, CameraScale),
      ViewCamera(R3(-1000, 10, 20), zero_rotation, CameraScale),
      ViewCamera(R3(-1000, 10, 20), Quaternion(0, 0, 0, 1), CameraScale),
      ViewCamera(R3(100, 900, 45), Quaternion(0, 0, 1, 0), CameraScale) }

InitMesh ==
    /\ pc = "transform"
    /\ mesh \in Meshes /\ pose \in Poses /\ mesh_camera \in ViewCameras
    /\ transformed_vertices = <<>> /\ curves = <<>>
    /\ curve_calls = <<>> /\ draws = <<>>
    /\ CurveIdle /\ VisIdle /\ PolyIdle /\ TickIdle /\ QuatIdle

NextMesh ==
    \/ RenderTransform \/ RenderCurve \/ RenderLine
    \/ RenderTriangle \/ RenderParallelogram

SpecMesh == InitMesh /\ [][NextMesh]_vars

----------------------------------------------------------------------------
(* Inputs of the visibility tests *)

\* faces [a, b, c] and [a, b, b + c - a, c] on small integer coordinates
VisTriangles ==
    { << R3(0, 0, 0), R3(2, 0, 0), R3(0, 2, 0) >>,
      << R3(0, 0, 1), R3(0, 2, 1), R3(2, 0, 1) >>,
      << R3(1, 0, 0), R3(0, 1, 0), R3(0, 0, 1) >>,
      << R3(2, -1, -1), R3(2, 2, -1), R3(2, -1, 1) >> }

VisParallelograms ==
    { << R3(0, 0, 0), R3(2, 0, 0), R3(2, 2, 0), R3(0, 2, 0) >>,
      << R3(2, -1, -1), R3(2, 1, -1), R3(2, 1, 1), R3(2, -1, 1) >>,
      << R3(0, 0, 2), R3(2, 0, 1), R3(3, 2, 1), R3(1, 2, 2) >> }

VisOrigins ==
    { R3(1, 1, 2), R3(1, 1, -2), R3(0, 0, 0), R3(2, 2, 3), R3(-1, 0, 0),
      R3(0, 1, 1), R3(3, 0, 0), R3(1, 0, 3) }

VisDirections ==
    { R3(1, 0, 0), R3(-1, 0, 0), R3(0, 0, 1), R3(0, 0, -1), R3(0, 1, 0),
      R3(1, 1, -1), R3(0, 1, -2) }

InitVis ==
    /\ pc = "test"
    /\ origin \in VisOrigins /\ direction \in VisDirections
    /\ face \in VisTriangles \cup VisParallelograms
    /\ behind = FALSE
    /\ CurveIdle /\ MeshIdle /\ PolyIdle /\ TickIdle /\ QuatIdle

NextVis == VisTriangle \/ VisParallelogram

SpecVis == InitVis /\ [][NextVis]_vars

----------------------------------------------------------------------------
(* Inputs of the draw_poly runs *)

\* a screen point on the pixel lattice
Px(x, y) == <<x * PixelPitch, y * PixelPitch>>

\* screen polylines of 0 to 5 points: a triangle, a convex square whose fan
\* diagonal runs through pixel centres, a concave pentagon whose fan
\* triangles overlap, and a self-intersecting bow tie
Polylines ==
    { <<>>,
      << Px(-2, -2) >>,
      << Px(-2, -2), Px(2, -2) >>,
      << Px(-2, -2), Px(2, -2), Px(-2, 2) >>,
      << Px(-2, -2), Px(2, -2), Px(2, 2), Px(-2, 2) >>,
      << Px(-2, -2), Px(2, -2), Px(2, 2), Px(0, -1), Px(-2, 2) >>,
      << Px(-2, -2), Px(2, 2), Px(2, -2), Px(-2, 2) >> }

\* the states an earlier draw can have left the sink in
Sinks ==
    { Sink("default", "off", "keep", <<>>),
      Sink("none", "off", "keep", <<>>),
      Sink("inside", "equal", "keep", <<>>),
      [Sink("inside", "equal", "keep", <<>>) EXCEPT !.stencil = {Px(0, 0), Px(1, 1)}],
      Sink("clip", "never", "replace", <<>>),
      Sink("clip", "never", "invert", <<>>) }

InitPoly ==
    /\ pc = "flush_before"
    /\ color \in {Purple, Teal}
    /\ poly \in Polylines
    /\ is_behind \in BOOLEAN
    /\ prev = 0
    /\ g \in Sinks
    /\ CurveIdle /\ MeshIdle /\ VisIdle /\ TickIdle /\ QuatIdle

NextPoly ==
    \/ PolyFlushBefore \/ PolyEnterStencil \/ PolyAnchor \/ PolyFan
    \/ PolyInvert \/ PolyFill \/ PolyFlushAfter \/ DrawAfter

SpecPoly == InitPoly /\ [][NextPoly]_vars

----------------------------------------------------------------------------
(* Inputs of the mesh constructions *)

\* two objects that repeat the positions of the edge they share, as a file
\* that lists the vertices of every object does
SharedEdgeObjects ==
    << Object(<< Origin, R3(Grid, 0, 0), R3(0, Grid, 0) >>,
              << Shape("Triangle", <<0, 1, 2>>) >>),
       Object(<< R3(Grid, 0, 0), Origin, R3(0, 0, Grid) >>,
              << Shape("Triangle", <<0, 1, 2>>), Shape("Line", <<1, 0>>) >>) >>

ObjectSets == {TetrahedronObj, TwoObjects, SharedEdgeObjects}

CuboidSizes == {R3(Grid, Grid, Grid), R3(2 * Grid, Grid, Grid)}

\* Mesh values written field by field: a line on an edge that does not
\* exist, an edge to a vertex that does not exist, and a sound mesh that
\* repeats a vertex position
LiteralMeshes ==
    { Mesh(<< Origin, R3(Grid, 0, 0) >>, << <<0, 1>> >>,
           << LineFace(0, Teal), LineFace(1, Teal) >>, <<>>, <<>>),
      Mesh(<< Origin, R3(Grid, 0, 0) >>, << <<0, 1>>, <<1, 2>> >>,
           << LineFace(0, Teal) >>, <<>>, <<>>),
      Mesh(<< Origin, R3(Grid, 0, 0), Origin, R3(0, Grid, 0) >>,
           << <<0, 1>>, <<2, 3>>, <<1, 3>> >>,
           << LineFace(0, Teal), LineFace(1, Teal) >>,
           << Face(<< <<0, FALSE>>, <<2, FALSE>>, <<1, TRUE>> >>, Teal) >>, <<>>) }

InitBuild ==
    /\ \/ pc = "construct" /\ mesh = <<>>
       \/ pc = "literal" /\ mesh \in LiteralMeshes
    /\ pose \in {Pose(Origin, zero_rotation), Pose(R3(Grid, 0, 0), Quaternion(0, 0, 0, 1))}
    /\ mesh_camera \in {ViewCamera(R3(-1000, 10, 20), zero_rotation, CameraScale),
                         ViewCamera(R3(100, 900, 45), Quaternion(0, 0, 1, 0), CameraScale)}
    /\ transformed_vertices = <<>> /\ curves = <<>>
    /\ curve_calls = <<>> /\ draws = <<>>
    /\ CurveIdle /\ VisIdle /\ PolyIdle /\ TickIdle /\ QuatIdle

NextBuild ==
    \/ \E size \in CuboidSizes : BuildCuboid(size, Purple)
    \/ \E objects \in ObjectSets : BuildMkMeshes(objects, Teal)
    \/ MkMeshesError
    \/ CondenseMesh
    \/ StartRender
    \/ NextMesh

SpecBuild == InitBuild /\ [][NextBuild]_vars

----------------------------------------------------------------------------
(* Inputs of the update ticks *)

NoInput == Input(FALSE, <<0, 0>>, <<0, 0>>, FALSE, FALSE, FALSE, FALSE, FALSE, FALSE)

Inputs ==
    { NoInput,
      [NoInput EXCEPT !.forward = TRUE],
      [NoInput EXCEPT !.left = TRUE, !.up = TRUE],
      [NoInput EXCEPT !.back = TRUE, !.right = TRUE, !.down = TRUE],
      [NoInput EXCEPT !.mouse_right = TRUE, !.mouse_mov = <<1, 0>>],
      [NoInput EXCEPT !.mouse_right = TRUE, !.mouse_mov = <<0, -1>>, !.mouse_scroll = <<0, 1>>],
      [NoInput EXCEPT !.mouse_mov = <<1, 1>>, !.mouse_scroll = <<0, -1>>] }

\* args.dt, in seconds
Durations == {0, 1, 2}

\* objects at rest, turning at a constant rate, and speeding up
GameObjects ==
    { GameObject(Pose(Origin, zero_rotation), Origin, Origin, Origin, Origin),
      GameObject(Pose(R3(100, 0, 0), zero_rotation), Origin, Origin, R3(0, 0, -2), Origin),
      GameObject(Pose(Origin, Quaternion(0, 0, 1, 0)), R3(1, 0, 0), R3(0, 1, 0),
                 Origin, R3(2, 0, 0)) }

InitTick ==
    /\ pc = "tick"
    /\ ticks = 0
    /\ game_object \in GameObjects
    /\ app \in { App(ViewCamera(R3(-30, 0, -30), zero_rotation, CameraScale), 0, 1, 1),
                 App(ViewCamera(R3(-40, 0, 0), Quaternion(0, 0, -1, 0), CameraScale), 1, 1, 1) }
    /\ CurveIdle /\ MeshIdle /\ VisIdle /\ PolyIdle /\ QuatIdle

NextTick == \E in \in Inputs, dt \in Durations : Update(in, dt)

SpecTick == InitTick /\ [][NextTick]_vars

----------------------------------------------------------------------------
(* quaternion.rs applied to drawn operands *)

\* (q1 * q2) * q3 and q1 * (q2 * q3)
Multiply ==
    /\ pc = "quat"
    /\ out' = <<qmul(qmul(quat_a, quat_b), quat_c), qmul(quat_a, qmul(quat_b, quat_c))>>
    /\ pc' = "multiplied"
    /\ UNCHANGED <<quat_a, quat_b, quat_c, vector>>
    /\ UNCHANGED <<curveVars, meshVars, visVars, polyVars, tickVars>>

\* q.rotate(&v) for an orientation q: over the integers the division of
\* inverse by the squared norm is exact for squared norm 1 only
Rotate ==
    /\ pc = "quat"
    /\ square_norm(quat_a) = 1
    /\ out' = <<rotate(quat_a, vector)>>
    /\ pc' = "rotated"
    /\ UNCHANGED <<quat_a, quat_b, quat_c, vector>>
    /\ UNCHANGED <<curveVars, meshVars, visVars, polyVars, tickVars>>

UnitQuaternions ==
    { Quaternion(1, 0, 0, 0), Quaternion(-1, 0, 0, 0),
      Quaternion(0, 1, 0, 0), Quaternion(0, -1, 0, 0),
      Quaternion(0, 0, 1, 0), Quaternion(0, 0, -1, 0),
      Quaternion(0, 0, 0, 1), Quaternion(0, 0, 0, -1) }

Quaternions ==
    UnitQuaternions \cup
    { Quaternion(1, 2, 3, 4), Quaternion(2, -1, 0, 3), Quaternion(0, 1, 1, 0) }

Vectors == { Origin, R3(1, 2, 3), R3(-2, 0, 5), R3(3, 3, -1) }

InitQuat ==
    /\ pc = "quat"
    /\ quat_a \in Quaternions
    /\ quat_b \in Quaternions
    /\ quat_c \in Quaternions
    /\ vector \in Vectors
    /\ out = <<>>
    /\ CurveIdle /\ MeshIdle /\ VisIdle /\ PolyIdle /\ TickIdle

NextQuat == Multiply \/ Rotate

SpecQuat == InitQuat /\ [][NextQuat]_vars

----------------------------------------------------------------------------
(* to_screen_space applied to drawn points and cameras *)

\* to_screen_space(&point, &camera)
Project ==
    /\ pc = "project"
    /\ out' = <<to_screen_space(vector, camera)>>
    /\ pc' = "projected"
    /\ UNCHANGED <<a, b, camera, resolution, max_split, done, todo, level,
                   branch_done, iters, mids, curve>>
    /\ UNCHANGED <<quat_a, quat_b, quat_c, vector>>
    /\ UNCHANGED <<meshVars, visVars, polyVars, tickVars>>

SignedAxes == { AxisX, neg(AxisX), AxisY, neg(AxisY), AxisZ, neg(AxisZ) }

\* the projected points: the lattice of Grid steps around the origin
ProjectedPoints ==
    { R3(x * Grid, y * Grid, z * Grid) : x \in (-2) .. 2, y \in (-1) .. 1, z \in (-1) .. 1 }

\* cameras on the lattice, looking along every axis
ProjectCameras ==
    { Camera(position, forward, right, scale) :
        position \in { Origin, R3(Grid, 0, 0), R3(0, -Grid, Grid) },
        forward \in SignedAxes,
        right \in SignedAxes,
        scale \in { CameraScale, 2 * CameraScale } }

InitProject ==
    /\ pc = "project"
    /\ vector \in ProjectedPoints
    /\ camera \in { cam \in ProjectCameras : dot(cam.forward, cam.right) = 0 }
    /\ out = <<>>
    /\ a = Origin /\ b = Origin /\ resolution = 0 /\ max_split = 0
    /\ done = <<>> /\ todo = <<>> /\ level = 0 /\ branch_done = <<>>
    /\ iters = 0 /\ mids = 0 /\ curve = <<>>
    /\ quat_a = zero_rotation /\ quat_b = zero_rotation /\ quat_c = zero_rotation
    /\ MeshIdle /\ VisIdle /\ PolyIdle /\ TickIdle

NextProject == Project

SpecProject == InitProject /\ [][NextProject]_vars

----------------------------------------------------------------------------
(* Properties of approximate_curve, checked under SpecCurve *)

Max(m, n) == IF m >= n THEN m ELSE n

\* the comparison is between points farther apart than the resolution
far_apart == ~within_resolution(Entry(a, camera), Entry(b, camera), resolution)

\* C1: the sequence approximate_curve returns begins with the projection of a
\* and ends with the projection of b, for every camera, resolution and
\* max_split.
C1_Endpoints ==
    pc = "returned" =>
        /\ Len(curve) >= 1
        /\ curve[1] = to_screen_space(a, camera)
        /\ curve[Len(curve)] = to_screen_space(b, camera)

\* C1 witness: a run that subdivided has returned, its end points distinct
C1_Witness ==
    /\ pc = "returned"
    /\ Len(curve) > 2
    /\ to_screen_space(a, camera) # to_screen_space(b, camera)

\* C2: with max_split = 0 no midpoint is ever computed and the result is
\* exactly the projection of a followed by the projection of b, whatever the
\* screen distance and the resolution.
C2_NoSplitAtZero ==
    max_split = 0 =>
        /\ mids = 0
        /\ pc = "returned" =>
              curve = <<to_screen_space(a, camera), to_screen_space(b, camera)>>

\* C2 witness: a run with max_split = 0 has returned although the end points
\* are farther apart on screen than the resolution
C2_Witness ==
    /\ max_split = 0
    /\ pc = "returned"
    /\ far_apart

\* C3: the loop terminates for every input: while it runs an iteration or
\* the return is always possible (neither expect fails), every iteration
\* counts towards a bound: with max_split = n >= 0 it runs at most
\* 2^(n+1) - 1 iterations and returns at most 2^n + 1 points (one iteration
\* when max_split is negative).
C3_Termination ==
    /\ pc # "panic"
    /\ pc = "loop" => (AcceptGuard \/ SplitGuard \/ ReturnGuard)
    /\ max_split >= 0 =>
          /\ iters <= 2 ^ (max_split + 1) - 1
          /\ pc = "returned" => Len(curve) <= 2 ^ max_split + 1
    /\ max_split < 0 => iters <= 1

\* C3 witness: the worst case is reached: a run that split every segment
\* down to depth max_split has returned
C3_Witness ==
    /\ pc = "returned"
    /\ max_split >= 2
    /\ iters = 2 ^ (max_split + 1) - 1
    /\ Len(curve) = 2 ^ max_split + 1

\* C4 as stated: the todo stack never holds more than max_split entries
\* (taken for max_split >= 1, where the bound allows any entry at all).
C4_Original == max_split >= 1 => Len(todo) <= max_split

\* C4 amended: the todo stack never holds more than max_split + 1 entries
\* (one entry when max_split is negative): the pending end point b and one
\* midpoint per level of depth.
C4_TodoBound == Len(todo) <= Max(max_split, 0) + 1

\* C4 witness: the amended bound is attained at full depth
C4_Witness ==
    /\ pc = "loop"
    /\ max_split >= 2
    /\ level = max_split
    /\ Len(todo) = max_split + 1

\* negative dot of the camera's forward with the direction to the point
behind_camera(point, cam) == dot(cam.forward, sub(point, cam.position)) < 0

\* C5: a comparison at depth max_split of two points farther apart than the
\* resolution, both behind the camera, puts intermediate arc points into done
\* before the pending point: done grows by more than one entry.
C5_ArcFallback ==
    [][ ( /\ pc = "loop"
          /\ todo # <<>>
          /\ level = max_split
          /\ ~within_resolution(done[Len(done)], todo[Len(todo)], resolution)
          /\ behind_camera(done[Len(done)].p, camera)
          /\ behind_camera(todo[Len(todo)].p, camera) )
        => Len(done') > Len(done) + 1 ]_vars

----------------------------------------------------------------------------
(* Properties of render_mesh, checked under SpecMesh *)

\* the phases of render_mesh that follow the construction of the curve cache
AfterCurves == {"lines", "triangles", "parallelograms", "rendered"}

\* the draw_poly calls made so far: draws[k] for k in PolyDraws, and the face
\* each was made for
PolyDraws == (Len(mesh.lines) + 1) .. Len(draws)

face_of_draw(k) ==
    LET n == k - Len(mesh.lines)
    IN  IF n <= Len(mesh.triangles) THEN mesh.triangles[n]
        ELSE mesh.parallelograms[n - Len(mesh.triangles)]

\* C6: one call of render_mesh invokes approximate_curve exactly once per
\* entry of mesh.edges, in order (12 times for a cuboid), however many faces
\* reference an edge: the line and face loops add no invocation.
C6_OneCurvePerEdge ==
    /\ Len(curve_calls) = Len(curves)
    /\ Len(curve_calls) <= Len(mesh.edges)
    /\ pc \in AfterCurves =>
          /\ curve_calls = mesh.edges
          /\ Len(mesh.parallelograms) = 6 => Len(curve_calls) = 12

\* C6 witness: a cuboid has been rendered: 12 lines and 6 faces, each face
\* referencing 4 edges, were drawn from 12 curve approximations
C6_Witness ==
    /\ pc = "rendered"
    /\ Len(mesh.parallelograms) = 6
    /\ Len(draws) = 18
    /\ Len(curve_calls) = 12

\* the number of points of the cached curves of the first n edges of a face
RECURSIVE points_before(_, _)
points_before(refs, n) ==
    IF n = 0 THEN 0
    ELSE points_before(refs, n - 1) + Len(at(curves, refs[n][1]))

\* C7: the polyline passed to draw_poly for a triangle or parallelogram face
\* is the concatenation, in the face's edge order, of the cached curves of
\* its edges: point j of the i-th part is point j of the curve when the
\* reversed flag is false and point j from the end when it is true.
C7_FacePolyline ==
    \A k \in PolyDraws :
        LET refs == face_of_draw(k).edges
            pts  == draws[k].points
        IN  /\ draws[k].call = "draw_poly"
            /\ Len(pts) = points_before(refs, Len(refs))
            /\ \A i \in 1 .. Len(refs) :
                  LET c == at(curves, refs[i][1])
                  IN  \A j \in 1 .. Len(c) :
                         pts[points_before(refs, i - 1) + j] =
                            IF refs[i][2] THEN c[Len(c) + 1 - j] ELSE c[j]

\* C7 witness: a face with a reversed edge whose curve was subdivided and is
\* not its own mirror image has been drawn
C7_Witness ==
    \E k \in PolyDraws :
        \E i \in 1 .. Len(face_of_draw(k).edges) :
            LET ref == face_of_draw(k).edges[i]
                c   == at(curves, ref[1])
            IN  ref[2] /\ Len(c) > 2 /\ c # reversed(c)

\* the pose-transformed vertex a directed edge of a face starts at
posed_start(ref) ==
    LET e == at(mesh.edges, ref[1])
        v == at(mesh.vertices, IF ref[2] THEN e[2] ELSE e[1])
    IN  add(rotate(pose.orientation, v), pose.pos)

\* the visibility test of a face: camera position, backward direction and
\* the posed vertices of the face
face_is_behind(f) ==
    LET vs  == [i \in 1 .. Len(f.edges) |-> posed_start(f.edges[i])]
        dir == rotate(mesh_camera.orientation, R3(-1, 0, 0))
    IN  IF Len(f.edges) = 3
        THEN intersects_triangle(mesh_camera.position, dir, vs)
        ELSE intersects_parallelogram(mesh_camera.position, dir, vs)

\* C8: the is_behind argument of every draw_poly call of render_mesh is the
\* result of the visibility test of that face (intersects_triangle for a
\* triangle, intersects_parallelogram for a parallelogram) on the camera
\* position, the camera's backward direction and the face's posed vertices.
C8_IsBehindArgument ==
    \A k \in PolyDraws : draws[k].is_behind = face_is_behind(face_of_draw(k))

\* C8 witness: a mesh has been rendered with one face whose test returned
\* behind, drawn with is_behind = TRUE, and one face drawn as not behind
C8_Witness ==
    /\ pc = "rendered"
    /\ \E k \in PolyDraws : draws[k].is_behind /\ face_is_behind(face_of_draw(k))
    /\ \E k \in PolyDraws : ~draws[k].is_behind

----------------------------------------------------------------------------
(* Properties of the visibility tests, checked under SpecVis *)

\* the corner the second face coordinate runs to: c of [a, b, c] and of
\* [a, b, _, c]
far_corner(fc) == IF Len(fc) = 3 THEN fc[3] ELSE fc[4]

\* |direction . normal| of the tested face: the common denominator of the
\* ray parameter and the face coordinates of the intersection point
denominator(fc) ==
    LET d == dot(direction, cross(sub(fc[2], fc[1]), sub(far_corner(fc), fc[1])))
    IN  IF d < 0 THEN -d ELSE d

\* the point a + u (b - a) + v (c - a) of the face, relative to the ray
\* origin, for u = un / den and v = vn / den, scaled by den
face_point(fc, un, vn, den) ==
    add(mul(sub(fc[1], origin), den),
        add(mul(sub(fc[2], fc[1]), un), mul(sub(far_corner(fc), fc[1]), vn)))

\* the point lies on the ray: origin + t direction with t >= 0
on_ray(p) == cross(p, direction) = R3(0, 0, 0) /\ dot(p, direction) >= 0

\* the ray crosses the plane of the face in a point of the face whose
\* coordinates un / den, vn / den lie in the face's domain
ray_meets_face(fc) ==
    LET den == denominator(fc)
    IN  /\ den # 0
        /\ \E un, vn \in 0 .. den :
              /\ IF Len(fc) = 3 THEN un + vn <= den ELSE TRUE
              /\ on_ray(face_point(fc, un, vn, den))

\* C9: a face is classified behind exactly when the ray from the origin
\* along the direction meets the plane of the face with t >= 0 in a point
\* with u >= 0, v >= 0 and u + v <= 1 (triangle) or u <= 1, v <= 1
\* (parallelogram).  A ray parallel to the plane has no such parameters and
\* is never classified behind.
C9_BehindIffRayMeetsFace ==
    pc = "tested" => (behind <=> ray_meets_face(face))

\* C9 witness: a triangle was classified behind for a ray that crosses it
\* strictly inside: u > 0, v > 0 and u + v < 1
C9_Witness ==
    /\ pc = "tested" /\ behind /\ Len(face) = 3
    /\ \E un, vn \in 1 .. denominator(face) :
          /\ un + vn < denominator(face)
          /\ on_ray(face_point(face, un, vn, denominator(face)))

----------------------------------------------------------------------------
(* Properties of draw_poly, checked under SpecPoly *)

Op(call, shape, data, test, op) ==
    [call |-> call, shape |-> shape, data |-> data, test |-> test, op |-> op]

\* the calls draw_poly and flush_graphics make themselves, as opposed to the
\* state switch a draw performs inside the sink
own_call(e) == e.call # "use_draw_state"

\* the reset of the draw state: both rectangles are drawn with the stencil
\* test off
FlushOps ==
    << Op("draw", "flush_rect", <<>>, "off", "keep"),
       Op("clear_draw_state", "", <<>>, "off", "keep"),
       Op("draw", "flush_rect", <<>>, "off", "keep") >>

\* flush, stencil-invert mode on a cleared stencil, one fan triangle per
\* point after the second, the optional inversion, the masked fill, flush
ExpectedOps ==
    FlushOps
    \o << Op("clear_stencil", "", <<>>, "never", "replace"),
          Op("StencilOp", "", <<>>, "never", "invert") >>
    \o [i \in 1 .. Max(Len(poly) - 2, 0) |->
          Op("draw", "triangle", <<poly[1], poly[i + 1], poly[i + 2]>>,
             "never", "invert")]
    \o (IF is_behind THEN << Op("draw", "ellipse", <<>>, "never", "invert") >>
        ELSE <<>>)
    \o << Op("draw", "fill_rect", color, "equal", "keep") >>
    \o FlushOps

\* C10: draw_poly flushes the draw state before its first stencil operation
\* and after its colour fill; its operations run in the order flush, enter
\* stencil-invert mode with a cleared stencil, fan triangles, optional
\* inversion, masked fill, flush; when it has returned the sink is in the
\* default state with the stencil test off, and a draw issued next runs in
\* that state without switching.
C10_FlushAroundStencil ==
    LET ops   == SelectSeq(g.log, own_call)
        after == ExpectedOps \o << Op("draw", "hud_line", <<>>, "off", "keep") >>
    IN  /\ Len(ops) <= Len(after)
        /\ ops = SubSeq(after, 1, Len(ops))
        /\ pc = "drawn" =>
              /\ ops = ExpectedOps
              /\ g.draw_state = "default" /\ g.test = "off" /\ g.op = "keep"
        /\ pc = "after" =>
              /\ ops = after
              /\ g.log[Len(g.log) - 1] = FlushOps[3]

\* C10 witness: a polygon behind the camera with two fan triangles has been
\* drawn on a sink an earlier draw had left in another state, and the next
\* draw has run
C10_Witness ==
    /\ pc = "after"
    /\ is_behind /\ Len(poly) >= 4
    /\ g.log[1].call = "use_draw_state"

----------------------------------------------------------------------------
(* Properties of the stencil fill of draw_poly, checked under SpecPoly *)

\* the fan triangles of the polyline, anchored at its first point
fan_triangles ==
    [i \in 1 .. Max(Len(poly) - 2, 0) |-> <<poly[1], poly[i + 1], poly[i + 2]>>]

\* the number of fan triangles that cover the pixel p
coverage_count(p) ==
    Cardinality({ i \in DOMAIN fan_triangles : covers(fan_triangles[i], p) })

\* the pixels covered by an odd number of fan triangles
odd_covered == { p \in Pixels : coverage_count(p) % 2 = 1 }

\* the pixels a conventional fan fill colours: those of any fan triangle
fan_filled == { p \in Pixels : coverage_count(p) > 0 }

\* the polyline is a convex, simple polygon: all other vertices lie strictly
\* on one and the same side of every edge
convex_simple ==
    LET n == Len(poly)
        nxt(i) == IF i = n THEN 1 ELSE i + 1
    IN  /\ n >= 3
        /\ \/ \A i, j \in 1 .. n :
                 j \notin {i, nxt(i)} => edge_side(poly[i], poly[nxt(i)], poly[j]) > 0
           \/ \A i, j \in 1 .. n :
                 j \notin {i, nxt(i)} => edge_side(poly[i], poly[nxt(i)], poly[j]) < 0

\* C11: with is_behind = false, once the fan has been drawn a pixel's stencil
\* bit is set exactly when an odd number of fan triangles cover the pixel;
\* the fill colours exactly those pixels; for a convex, simple polygon they
\* are the pixels a conventional fan fill colours.
C11_OddCoverageFill ==
    ~is_behind =>
        /\ pc = "fill" => g.stencil = odd_covered
        /\ pc = "flush_after" =>
              /\ g.frame = odd_covered
              /\ convex_simple => g.frame = fan_filled

\* C11 witness: a polygon whose fan triangles overlap has been filled: some
\* pixel is covered twice and left out, others are covered once and coloured
C11_Witness ==
    /\ pc = "flush_after" /\ ~is_behind
    /\ \E p \in Pixels : coverage_count(p) = 2 /\ p \notin g.frame
    /\ \E p \in Pixels : coverage_count(p) = 1 /\ p \in g.frame

\* C12 as stated: with is_behind = true the filled pixels are the complement,
\* within the fill rectangle, of the pixels filled with is_behind = false
C12_Original ==
    (pc = "flush_after" /\ is_behind) =>
        g.frame = covered("fill_rect", color) \ odd_covered

\* C12 as amended: with is_behind = true the stencil bit of every pixel the
\* full-screen ellipse covers is inverted after the fan, the others keep the
\* bit the fan left, and the fill colours the pixels whose bit is then set:
\* inside the ellipse the complement of the pixels filled with
\* is_behind = false, outside it those pixels themselves.
C12_ComplementInsideEllipse ==
    LET ellipse  == covered("ellipse", <<>>)
        inverted == (ellipse \ odd_covered) \cup (odd_covered \ ellipse)
    IN  is_behind =>
           /\ pc = "invert" => g.stencil = odd_covered
           /\ pc = "fill" => g.stencil = inverted
           /\ pc = "flush_after" =>
                 g.frame = inverted \cap covered("fill_rect", color)

\* C12 witness: a polygon behind the camera has been filled: a pixel its fan
\* covers once is left out, a pixel of the ellipse outside the fan is
\* coloured, and a pixel of the rectangle outside the ellipse is not
C12_Witness ==
    /\ pc = "flush_after" /\ is_behind
    /\ \E p \in covered("ellipse", <<>>) : coverage_count(p) = 1 /\ p \notin g.frame
    /\ \E p \in covered("ellipse", <<>>) : coverage_count(p) = 0 /\ p \in g.frame
    /\ \E p \in covered("fill_rect", color) \ covered("ellipse", <<>>) : p \notin g.frame

\* C16: draw_poly called with fewer than 3 points signals a failure to its
\* caller (it neither fills nor returns) and colours no pixel
C16_ShortPolylineFails ==
    Len(poly) < 3 =>
        /\ pc \notin {"flush_after", "drawn", "after"}
        /\ g.frame = {}

----------------------------------------------------------------------------
(* Properties of the mesh constructors, checked under SpecBuild *)

\* the Mesh invariant: every edge index of a line or face is an index of
\* edges, both vertex indices of every edge are indices of vertices
mesh_invariant(m) ==
    /\ \A i \in 1 .. Len(m.lines) : m.lines[i].edge \in 0 .. Len(m.edges) - 1
    /\ \A i \in 1 .. Len(m.triangles) : \A k \in 1 .. 3 :
          m.triangles[i].edges[k][1] \in 0 .. Len(m.edges) - 1
    /\ \A i \in 1 .. Len(m.parallelograms) : \A k \in 1 .. 4 :
          m.parallelograms[i].edges[k][1] \in 0 .. Len(m.edges) - 1
    /\ \A i \in 1 .. Len(m.edges) : \A k \in 1 .. 2 :
          m.edges[i][k] \in 0 .. Len(m.vertices) - 1

\* C13: the meshes cuboid and mk_meshes (on a well-formed model) return
\* satisfy the Mesh invariant, and condense_mesh applied to a mesh that
\* satisfies it returns a mesh that satisfies it.
C13_MeshInvariant ==
    [][ /\ pc' \in {"cuboid_built", "mk_built"} => mesh_invariant(mesh')
        /\ (pc' = "condensed" /\ mesh_invariant(mesh)) => mesh_invariant(mesh')
      ]_vars

\* C13 witness: condense_mesh has merged the repeated vertices of a mesh of
\* mk_meshes (6 vertices, 4 positions) and the result satisfies the invariant
C13_Witness ==
    /\ pc = "condensed"
    /\ Len(mesh.vertices) = 4 /\ Len(mesh.edges) = 6 /\ Len(mesh.triangles) = 2
    /\ mesh_invariant(mesh)

\* C14: in every mesh cuboid, mk_meshes or condense_mesh produces no two
\* entries of edges join the same unordered pair of vertices
C14_EdgesDeduplicated ==
    pc \in Constructed =>
        \A i, j \in 1 .. Len(mesh.edges) :
            i # j => {mesh.edges[i][1], mesh.edges[i][2]}
                        # {mesh.edges[j][1], mesh.edges[j][2]}

\* C15: a mesh with a dangling index is rejected when it is constructed
\* (condense_mesh does not produce one), so render_mesh never reaches an
\* out-of-range index
C15_DanglingRejected ==
    /\ pc = "condensed" => mesh_invariant(mesh)
    /\ pc # "panic"

----------------------------------------------------------------------------
(* Properties of the update ticks, checked under SpecTick *)

\* C17: an object's pose orientation and the camera orientation that have
\* squared norm 1 before a tick have squared norm 1 after it
C17_UnitNormKept ==
    [][ /\ square_norm(game_object.pose.orientation) = 1
           => square_norm(game_object'.pose.orientation) = 1
        /\ square_norm(app.camera.orientation) = 1
           => square_norm(app'.camera.orientation) = 1
      ]_vars

----------------------------------------------------------------------------
(* Properties of the quaternion algebra, checked under SpecQuat *)

\* C18: rotating a vector by the identity quaternion (1,0,0,0) returns the
\* vector unchanged in every component
C18_IdentityRotation ==
    (pc = "rotated" /\ quat_a = zero_rotation) =>
        /\ out[1].x = vector.x
        /\ out[1].y = vector.y
        /\ out[1].z = vector.z

C18_Witness ==
    /\ pc = "rotated"
    /\ quat_a = zero_rotation
    /\ vector = R3(1, 2, 3)
    /\ out[1] = R3(1, 2, 3)

\* C19: quaternion multiplication is associative: (q1*q2)*q3 equals
\* q1*(q2*q3) in each of the four components
C19_MulAssociative ==
    pc = "multiplied" =>
        /\ out[1].r = out[2].r
        /\ out[1].i = out[2].i
        /\ out[1].j = out[2].j
        /\ out[1].k = out[2].k

\* operands that do not commute pairwise, none of them a unit
C19_Witness ==
    /\ pc = "multiplied"
    /\ quat_a = Quaternion(1, 2, 3, 4)
    /\ quat_b = Quaternion(2, -1, 0, 3)
    /\ quat_c = Quaternion(0, 1, 1, 0)
    /\ qmul(quat_a, quat_b) # qmul(quat_b, quat_a)
    /\ qmul(quat_b, quat_c) # qmul(quat_c, quat_b)
    /\ out[1] = out[2]

\* C20: for a unit quaternion q and a vector v the squared norm of
\* q.rotate(v) equals the squared norm of v
C20_RotationKeepsNorm ==
    (pc = "rotated" /\ square_norm(quat_a) = 1) =>
        dot(out[1], out[1]) = dot(vector, vector)

\* a rotation that moves the vector
C20_Witness ==
    /\ pc = "rotated"
    /\ square_norm(quat_a) = 1
    /\ vector = R3(1, 2, 3)
    /\ out[1] = R3(-1, -2, 3)
    /\ dot(out[1], out[1]) = 14

----------------------------------------------------------------------------
(* Properties of to_screen_space, checked under SpecProject *)

\* the vector from the camera to the projected point
to_projected == sub(vector, camera.position)

\* the point lies on the ray from the camera along k * forward, k = 1 or -1
on_axis(k) ==
    /\ cross(to_projected, camera.forward) = Origin
    /\ k * dot(to_projected, camera.forward) > 0

\* C21: a point exactly along the camera's forward direction maps to (0, 0)
\* and a point exactly antipodal to it maps to (scale * pi, 0); neither is
\* treated as a failure
C21_PoleConvention ==
    pc = "projected" =>
        /\ on_axis(1) => out[1] = Screen(0, 0)
        /\ on_axis(-1) => out[1] = Screen(tdiv(camera.scale * PI, Milli), 0)

\* an antipodal point of a camera that looks along the y axis from off the
\* origin has been projected
C21_Witness ==
    /\ pc = "projected"
    /\ on_axis(-1)
    /\ camera.position # Origin
    /\ camera.forward = AxisY
    /\ out[1].x > 0

\* the angular distance of the projected point from the forward axis
alpha_of_projected == acos(dot(to_projected, camera.forward), norm(to_projected))

\* the square of the in-plane length of to_point
in_plane_square ==
    LET in_plane == sub(to_projected,
                        mul(camera.forward, dot(to_projected, camera.forward)))
    IN  dot(in_plane, in_plane)

\* C22: for a point with 0 < alpha < pi the returned point has distance
\* scale * alpha from the origin (to the 2 pixels the whole-pixel arithmetic
\* resolves), and the squared in-plane length of to_point equals
\* (to_point.right)^2 + (to_point.(forward x right))^2
C22_RadiusIsScaleAlpha ==
    ( /\ pc = "projected"
      /\ norm(to_projected) # 0
      /\ alpha_of_projected > 0
      /\ alpha_of_projected < PI ) =>
        LET square == out[1].x * out[1].x + out[1].y * out[1].y
            radius == tdiv(camera.scale * alpha_of_projected, Milli)
            right  == dot(to_projected, camera.right)
            up     == dot(to_projected, cross(camera.forward, camera.right))
        IN  /\ ~out[1].nan
            /\ (radius - 2) * (radius - 2) <= square
            /\ square <= (radius + 2) * (radius + 2)
            /\ in_plane_square = right * right + up * up

\* a point off both screen axes, behind a camera that looks along -z
C22_Witness ==
    /\ pc = "projected"
    /\ camera.forward = neg(AxisZ)
    /\ alpha_of_projected > PI \div 2
    /\ alpha_of_projected < PI
    /\ out[1].x # 0
    /\ out[1].y # 0

----------------------------------------------------------------------------
(* Properties of the loop of approximate_curve, checked under SpecCurve *)

\* the false markers of branch_done
unfinished == { i \in 1 .. Len(branch_done) : ~branch_done[i] }

\* C23: in every state of the loop neither expect can fail and the depth
\* bookkeeping is consistent: done is non-empty, branch_done holds a false
\* entry whenever the unwinding loop pops it, level = branch_done.len() - 1
\* with 0 <= level <= max(max_split, 0), and todo has as many entries as
\* branch_done has false markers
C23_DepthBookkeeping ==
    /\ pc # "panic"
    /\ pc \in {"loop", "returned"} =>
          /\ done # <<>>
          /\ AcceptGuard => unfinished # {}
          /\ level = Len(branch_done) - 1
          /\ 0 <= level
          /\ level <= Max(max_split, 0)
          /\ Len(todo) = Cardinality(unfinished)

\* the second half of a split segment is being split again: a finished
\* marker lies between two unfinished ones
C23_Witness ==
    /\ pc = "loop"
    /\ branch_done = <<FALSE, TRUE, FALSE>>
    /\ level = 2
    /\ Len(todo) = 2
    /\ Len(done) >= 2

\* the deepest level of subdivision, and the number of sub-segments there
deepest == Max(max_split, 0)

steps == 2 ^ deepest

\* the point is a + (k / steps) * (b - a)
at_step(p, k) == mul(sub(p, a), steps) = mul(sub(b, a), k)

on_segment(p) == \E k \in 0 .. steps : at_step(p, k)

\* the numerator k of the parameter t = k / steps of a point of the segment
step_of(p) == CHOOSE k \in 0 .. steps : at_step(p, k)

\* C24: the points of done are projections of points a + t * (b - a) with t
\* strictly increasing from 0 (to 1 at the return), every t a dyadic fraction
\* k / 2^d with d <= max_split (d = 0 for a negative max_split); consecutive
\* points are within the resolution on screen or are the ends of a
\* sub-segment of the deepest level; a midpoint lies above the pending point
\* it was split from on todo, so it is placed in done first.
C24_DyadicOrder ==
    /\ (pc = "returned" /\ a = b) =>
          curve = <<to_screen_space(a, camera), to_screen_space(b, camera)>>
    /\ (pc \in {"loop", "returned"} /\ a # b) =>
        /\ \A i \in 1 .. Len(done) :
              /\ on_segment(done[i].p)
              /\ done[i].s = to_screen_space(done[i].p, camera)
        /\ \A i \in 1 .. Len(todo) :
              /\ on_segment(todo[i].p)
              /\ todo[i].s = to_screen_space(todo[i].p, camera)
        /\ step_of(done[1].p) = 0
        /\ \A i \in 1 .. Len(done) - 1 :
              /\ step_of(done[i].p) < step_of(done[i + 1].p)
              /\ \/ within_resolution(done[i], done[i + 1], resolution)
                 \/ step_of(done[i + 1].p) = step_of(done[i].p) + 1
        /\ \A i \in 1 .. Len(todo) - 1 :
              step_of(todo[i + 1].p) < step_of(todo[i].p)
        /\ todo # <<>> =>
              /\ step_of(done[Len(done)].p) < step_of(todo[Len(todo)].p)
              /\ step_of(todo[1].p) = steps
        /\ pc = "returned" =>
              /\ curve = collect(done)
              /\ step_of(done[Len(done)].p) = steps

\* a returned run that accepted one half early and split the other down to
\* the deepest level
C24_Witness ==
    /\ pc = "returned"
    /\ a # b
    /\ max_split >= 2
    /\ Len(curve) > 3
    /\ Len(curve) < steps + 1
    /\ \E i \in 1 .. Len(done) - 1 :
          /\ ~within_resolution(done[i], done[i + 1], resolution)
          /\ step_of(done[i + 1].p) = step_of(done[i].p) + 1
    /\ \E i \in 1 .. Len(done) - 1 :
          step_of(done[i + 1].p) > step_of(done[i].p) + 1

----------------------------------------------------------------------------
(* Properties of the topology of the built meshes, checked under SpecBuild *)

\* the vertex a directed edge of a face ends at
end_vertex(ref, edges) == start_vertex(<<ref[1], ~ref[2]>>, edges)

\* the directed edges of a face, traversed in order, return to their start
closed_cycle(refs, edges) ==
    \A i \in 1 .. Len(refs) :
        end_vertex(refs[i], edges) = start_vertex(refs[(i % Len(refs)) + 1], edges)

\* the faces among fs that refer to edge e
faces_on_edge(fs, e) ==
    { i \in 1 .. Len(fs) : \E n \in 1 .. Len(fs[i].edges) : fs[i].edges[n][1] = e }

\* C25: the mesh cuboid builds has 8 vertices, 12 edges, one line face per
\* edge and 6 parallelogram faces; the four directed edges of every
\* parallelogram form a closed 4-cycle, and every edge is referred to by
\* exactly two parallelograms
C25_ClosedBox ==
    pc = "cuboid_built" =>
        /\ Len(mesh.vertices) = 8
        /\ Len(mesh.edges) = 12
        /\ Len(mesh.lines) = 12
        /\ \A e \in 0 .. 11 : Cardinality({i \in 1 .. 12 : mesh.lines[i].edge = e}) = 1
        /\ Len(mesh.triangles) = 0
        /\ Len(mesh.parallelograms) = 6
        /\ \A i \in 1 .. 6 :
              /\ Len(mesh.parallelograms[i].edges) = 4
              /\ closed_cycle(mesh.parallelograms[i].edges, mesh.edges)
        /\ \A e \in 0 .. 11 : Cardinality(faces_on_edge(mesh.parallelograms, e)) = 2

\* a box with sides of different lengths has been built
C25_Witness ==
    /\ pc = "cuboid_built"
    /\ at(mesh.vertices, 0) = R3(Grid, Grid \div 2, Grid \div 2)
    /\ mesh.parallelograms[1].edges[4] = <<8, TRUE>>
    /\ start_vertex(mesh.parallelograms[1].edges[4], mesh.edges) = 3

\* the triangles mk_meshes reads from the objects, in order, as triples of
\* vertex indices with the offset of their object added
RECURSIVE triangles_read(_, _)
triangles_read(objects, vertex_offset) ==
    IF objects = <<>> THEN <<>>
    ELSE LET shapes == SelectSeq(Head(objects).shapes,
                                 LAMBDA shape : shape.kind = "Triangle")
         IN  [i \in 1 .. Len(shapes) |->
                 [n \in 1 .. 3 |-> shapes[i].v[n] + vertex_offset]]
             \o triangles_read(Tail(objects),
                               vertex_offset + Len(Head(objects).vertices))

\* C26: for every triangle (a, b, c) mk_meshes reads, among triangles and
\* lines in any order, the three stored directed edges start at a, b and c
\* and form the closed cycle a -> b -> c -> a, and every stored edge has its
\* smaller vertex index first
C26_TriangleCycle ==
    pc = "mk_built" =>
        \E objects \in ObjectSets :
            /\ mesh = mk_meshes(objects, Teal)
            /\ LET read == triangles_read(objects, 0)
               IN  /\ Len(mesh.triangles) = Len(read)
                   /\ \A t \in 1 .. Len(read) :
                         LET refs == mesh.triangles[t].edges
                         IN  /\ Len(refs) = 3
                             /\ \A n \in 1 .. 3 :
                                   /\ start_vertex(refs[n], mesh.edges) = read[t][n]
                                   /\ end_vertex(refs[n], mesh.edges) = read[t][(n % 3) + 1]
                             /\ closed_cycle(refs, mesh.edges)
            /\ \A e \in 1 .. Len(mesh.edges) : mesh.edges[e][1] <= mesh.edges[e][2]

\* a triangle read after a line and another triangle had stored two of its
\* edges: it traverses one edge forwards and a stored edge backwards
C26_Witness ==
    /\ pc = "mk_built"
    /\ mesh = mk_meshes(TetrahedronObj, Teal)
    /\ \E t \in 1 .. Len(mesh.triangles) :
          /\ ~mesh.triangles[t].edges[1][2]
          /\ mesh.triangles[t].edges[2][2]
          /\ start_vertex(mesh.triangles[t].edges[2], mesh.edges)
                > end_vertex(mesh.triangles[t].edges[2], mesh.edges)
    /\ Len(mesh.edges) = 6

====
